---- MODULE Spec2Model ----
(***************************************************************************)
(* Model of relevency/scripts/global_relevancy.py: query segmentation,     *)
(* category routing, score fusion, the density verdict and the multi-query *)
(* orchestrator predict().                                                 *)
(*                                                                         *)
(* A Python str is a sequence of one-character strings.  Characters that   *)
(* have no ASCII spelling are named by their code point: "U00A0" is the    *)
(* no-break space, "U200B" the zero-width space, "UFB01" the fi ligature.  *)
(* A Python float is an integer number of SCALE-ths where the code does    *)
(* arithmetic on it, and a percentage where it is only compared.           *)
(***************************************************************************)
EXTENDS Integers, Sequences, FiniteSets, TLC

VARIABLES
    query,               \* the str handed to predict / split_multi_query / token_overlap
    top_k,               \* the top_k argument of predict
    INDEX,               \* the catalog loaded at import time
    HAS_ANALYSER_MODEL,  \* analyser_relevancy was imported
    HAS_ENDO_MODEL,      \* endo_relevancy was imported
    pc,                  \* where the call stands
    individual_queries,  \* predict: the list split_multi_query returned
    all_results,         \* predict: the per-sub-query results so far
    response,            \* what predict returned
    top_matches,         \* argument of is_relevant_by_density
    relevant,            \* value is_relevant_by_density returned
    scorer_calls,        \* calls of analyser_predict / predict_endo made, with what each ended with
    detected,            \* value detect_category_from_query returned
    raw_match,           \* argument raw of sanitize_match
    sanitized,           \* value sanitize_match returned
    text,                \* normalize_text: its argument s, then the str it returned
    tokens,              \* value norm_token_list returned
    target,              \* second argument of token_overlap
    overlap,             \* value token_overlap returned
    INDEX_RAW,           \* the records of the index file still to be loaded
    SHUTDOWN,            \* run.py: the global flag handle_signal sets
    queue,               \* run.py: the asyncio.Queue between scraper and consumer
    buffer_gem,          \* db_consumer: rows waiting for the next gem_tenders upsert
    buffer_main,         \* db_consumer: rows waiting for the next Main_Relevency insert
    gem_to_commit,       \* flush_buffers: the gem batch handed to the executor
    main_to_commit,      \* flush_buffers: the main batch handed to the executor
    db_gem,              \* the rows db_execute_many_upsert was called with, in order
    db_main,             \* the rows db_insert_main_relevancy was called with, in order
    db_failed,           \* the batches whose database write raised
    scraper_pc,          \* where scraper_worker stands
    consumer_pc,         \* where db_consumer stands
    page_no,             \* scraper_worker: the page being scraped
    total_pages,         \* scraper_worker: the page count extract_total_counts gave
    rows_put,            \* how many rows the scraper has put on the queue
    global_score,        \* scrape_single_page_to_rows: main_relevency_score of the card
    global_relevant      \* scrape_single_page_to_rows: relevency_result of the card

\* what the calls of the utility helpers on their own read and write
helper_vars == <<detected, raw_match, sanitized, text, tokens, target, overlap, INDEX_RAW>>

\* what the scraper pipeline of run.py reads and writes
pipeline_vars == <<SHUTDOWN, queue, buffer_gem, buffer_main, gem_to_commit, main_to_commit,
                   db_gem, db_main, db_failed, scraper_pc, consumer_pc, page_no, total_pages,
                   rows_put, global_score, global_relevant>>

vars == <<query, top_k, INDEX, HAS_ANALYSER_MODEL, HAS_ENDO_MODEL, pc,
          individual_queries, all_results, response, top_matches, relevant,
          scorer_calls, helper_vars, pipeline_vars>>

None == "None"

\* no utility helper is being called on its own
HelpersIdle ==
    /\ detected = None /\ raw_match = None /\ sanitized = None /\ text = None
    /\ tokens = None /\ target = None /\ overlap = None /\ INDEX_RAW = None

\* the scraper pipeline is not running
PipelineIdle ==
    /\ SHUTDOWN = None /\ queue = None /\ buffer_gem = None /\ buffer_main = None
    /\ gem_to_commit = None /\ main_to_commit = None
    /\ db_gem = None /\ db_main = None /\ db_failed = None
    /\ scraper_pc = None /\ consumer_pc = None /\ page_no = None /\ total_pages = None
    /\ rows_put = None /\ global_score = None /\ global_relevant = None

-----------------------------------------------------------------------------
(* Characters and character classes                                        *)

LowerLetters ==
    {"a", "b", "c", "d", "e", "f", "g", "h", "i", "j", "k", "l", "m",
     "n", "o", "p", "q", "r", "s", "t", "u", "v", "w", "x", "y", "z"}

Digits == {"0", "1", "2", "3", "4", "5", "6", "7", "8", "9"}

\* str.lower() on one character
LowerOf ==
    [c \in {"A", "B", "C", "D", "E", "F", "G", "H", "I", "J", "K", "L", "M",
            "N", "O", "P", "Q", "R", "S", "T", "U", "V", "W", "X", "Y", "Z"} |->
        CASE c = "A" -> "a" [] c = "B" -> "b" [] c = "C" -> "c" [] c = "D" -> "d"
          [] c = "E" -> "e" [] c = "F" -> "f" [] c = "G" -> "g" [] c = "H" -> "h"
          [] c = "I" -> "i" [] c = "J" -> "j" [] c = "K" -> "k" [] c = "L" -> "l"
          [] c = "M" -> "m" [] c = "N" -> "n" [] c = "O" -> "o" [] c = "P" -> "p"
          [] c = "Q" -> "q" [] c = "R" -> "r" [] c = "S" -> "s" [] c = "T" -> "t"
          [] c = "U" -> "u" [] c = "V" -> "v" [] c = "W" -> "w" [] c = "X" -> "x"
          [] c = "Y" -> "y" [] c = "Z" -> "z"]

LowerChar(c) == IF c \in DOMAIN LowerOf THEN LowerOf[c] ELSE c

\* str.lower()
Lower(s) == [i \in 1..Len(s) |-> LowerChar(s[i])]

\* what str.strip() removes and what \s matches
WS == {" ", "\t", "\n", "\r"}

\* [\u200B-\u200F\u202A-\u202E\u00A0] of normalize_text (one member per range)
FormatChars == {"U200B", "U200E", "U202A", "U00A0"}

\* [-: U+201A U+00C4 U+00A2 \s] of the edge clean-up, as the source file spells it
EdgeClass == {"-", ":", "U201A", "U00C4", "U00A2"} \cup WS

\* [- U+201A U+00C4 U+00EC] of the location suffix patterns
DashClass == {"-", "U201A", "U00C4", "U00EC"}

\* [a-z\s] under re.IGNORECASE
IsWordOrSpace(c) == LowerChar(c) \in LowerLetters \/ c \in WS

-----------------------------------------------------------------------------
(* Sequence helpers                                                        *)

SetMin(S) == CHOOSE x \in S : \A y \in S : x <= y
SetMax(S) == CHOOSE x \in S : \A y \in S : x >= y

RECURSIVE Flatten(_)
Flatten(ss) == IF ss = <<>> THEN <<>> ELSE Head(ss) \o Flatten(Tail(ss))

\* s[i:] / s[:n] of Python, 1-based
From(s, i) == SubSeq(s, i, Len(s))
Upto(s, n) == SubSeq(s, 1, n)

\* smallest j >= i with j > Len(s) or s[j] not in C: the end of a greedy C* at i
SkipWhile(s, i, C) ==
    LET stops == {j \in i..Len(s) : s[j] \notin C}
    IN  IF stops = {} THEN Len(s) + 1 ELSE SetMin(stops)

\* removal of the characters of C from both ends
StripChars(s, C) ==
    LET keep == {i \in 1..Len(s) : s[i] \notin C}
    IN  IF keep = {} THEN <<>> ELSE SubSeq(s, SetMin(keep), SetMax(keep))

\* str.strip()
Strip(s) == StripChars(s, WS)

\* w occurs in s at position i
OccursAt(s, i, w) == i >= 1 /\ i + Len(w) - 1 <= Len(s) /\ SubSeq(s, i, i + Len(w) - 1) = w

-----------------------------------------------------------------------------
(* normalize_text                                                          *)

\* unicodedata.normalize("NFKD", .) on one character
NFKDChar(c) ==
    CASE c = "UFB01" -> <<"f", "i">>
      [] c = "U00A0" -> <<" ">>
      [] c = "U00C4" -> <<"A", "U0308">>
      [] c = "U00EC" -> <<"i", "U0300">>
      [] c = "U00EE" -> <<"i", "U0302">>
      [] OTHER -> <<c>>

NFKD(s) == Flatten([i \in 1..Len(s) |-> NFKDChar(s[i])])

\* normalize_text with s.strip() done before the replacements
normalize_text_strip_first(s) ==
    LET d == Strip(NFKD(s))
    IN  [i \in 1..Len(d) |->
            IF d[i] \in FormatChars \/ d[i] \in {"\n", "\r"} THEN " " ELSE d[i]]

normalize_text(s) ==
    LET d == NFKD(s)
        r == [i \in 1..Len(d) |->
                 IF d[i] \in FormatChars \/ d[i] \in {"\n", "\r"} THEN " " ELSE d[i]]
    IN  Strip(r)

-----------------------------------------------------------------------------
(* split_multi_query                                                       *)

W_supply == <<"s", "u", "p", "p", "l", "y">>
W_requirement == <<"r", "e", "q", "u", "i", "r", "e", "m", "e", "n", "t">>
W_procurement == <<"p", "r", "o", "c", "u", "r", "e", "m", "e", "n", "t">>
W_purchase == <<"p", "u", "r", "c", "h", "a", "s", "e">>
W_quotation == <<"q", "u", "o", "t", "a", "t", "i", "o", "n">>
W_of == <<"o", "f">>
W_for == <<"f", "o", "r">>
W_equipment == <<"e", "q", "u", "i", "p", "m", "e", "n", "t">>
W_hospital == <<"h", "o", "s", "p", "i", "t", "a", "l">>

\* the five patterns ^<first>\s+<second>\s*[-:]*\s*, in the order of the list
prefixes_to_remove ==
    << <<W_supply, W_of>>, <<W_requirement, W_of>>, <<W_procurement, W_of>>,
       <<W_purchase, W_of>>, <<W_quotation, W_for>> >>

\* re.sub(prefix_pattern, "", q, flags=re.IGNORECASE): the pattern is anchored
\* at ^, so at most one match, at the start
SubPrefix(q, pat) ==
    LET a  == Len(pat[1])
        i1 == SkipWhile(q, a + 1, WS)
        i2 == i1 + Len(pat[2])
        i3 == SkipWhile(q, i2, WS)
        i4 == SkipWhile(q, i3, {"-", ":"})
        i5 == SkipWhile(q, i4, WS)
    IN  IF /\ OccursAt(Lower(q), 1, pat[1])
           /\ i1 > a + 1
           /\ OccursAt(Lower(q), i1, pat[2])
        THEN From(q, i5)
        ELSE q

RECURSIVE StripPrefixesFrom(_, _)
StripPrefixesFrom(q, k) ==
    IF k > Len(prefixes_to_remove) THEN q
    ELSE StripPrefixesFrom(SubPrefix(q, prefixes_to_remove[k]), k + 1)

\* StripPrefixes leaving the loop after the first pattern that matched
StripPrefixes_first_only(q) ==
    LET hits == {k \in 1..Len(prefixes_to_remove) : SubPrefix(q, prefixes_to_remove[k]) # q}
    IN  IF hits = {} THEN q ELSE SubPrefix(q, prefixes_to_remove[SetMin(hits)])

\* the loop over prefixes_to_remove: every pattern is applied, one after another
StripPrefixes(q) == StripPrefixesFrom(q, 1)

\* a match of [,;|\n]|\d+[\.)]\s* starting at i: the position after it, 0 if none
DelimEnd(s, i) ==
    IF s[i] \in {",", ";", "|", "\n"} THEN i + 1
    ELSE IF s[i] \in Digits
         THEN LET j == SkipWhile(s, i, Digits)
              IN  IF j <= Len(s) /\ s[j] \in {".", ")"}
                  THEN SkipWhile(s, j + 1, WS)
                  ELSE 0
         ELSE 0

RECURSIVE SplitFrom(_, _, _)
SplitFrom(s, i, start) ==
    IF i > Len(s) THEN << From(s, start) >>
    ELSE LET e == DelimEnd(s, i)
         IN  IF e = 0 THEN SplitFrom(s, i + 1, start)
             ELSE << SubSeq(s, start, i - 1) >> \o SplitFrom(s, e, e)

\* re.split(r"[,;|\n]|\d+[\.)]\s*", query)
SplitParts(s) == SplitFrom(s, 1, 1)

\* SubSuffix with the substitution left out
SubSuffix_kept(part, word, optS) == part

\* re.sub(r"\s*[-..]\s*[a-z\s]+<word>s?\s*$", "", part, flags=re.IGNORECASE):
\* the dash is the last DashClass character, what follows it is letters and
\* white space only, ends with the word and has something before the word
SubSuffix(part, word, optS) ==
    LET dashes == {i \in 1..Len(part) : part[i] \in DashClass}
        d      == SetMax(dashes)
        rest   == Lower(From(part, d + 1))
        ends   == {i \in 1..Len(rest) : rest[i] \notin WS}
        r      == IF ends = {} THEN <<>> ELSE Upto(rest, SetMax(ends))
        n      == Len(r)
        w      == Len(word)
        plain  == n > w /\ OccursAt(r, n - w + 1, word)
        plural == optS /\ n > w + 1 /\ r[n] = "s" /\ OccursAt(r, n - w, word)
        before == {i \in 1..(d - 1) : part[i] \notin WS}
        p      == IF before = {} THEN 1 ELSE SetMax(before) + 1
    IN  IF dashes = {} THEN part
        ELSE IF (\A i \in (d + 1)..Len(part) : IsWordOrSpace(part[i])) /\ (plain \/ plural)
             THEN Upto(part, p - 1)
             ELSE part

\* CleanPart with the second length test off by one (<= 5 instead of < 5)
CleanPart_short5(raw) ==
    LET part  == Strip(raw)
        part2 == StripChars(part, EdgeClass)
    IN  IF Len(part) < 3 \/ Len(part2) <= 5 THEN <<>> ELSE << Strip(part2) >>

\* CleanPart without the two length tests
CleanPart_keeps_short(raw) ==
    LET part2 == StripChars(Strip(raw), EdgeClass)
    IN  << Strip(SubSuffix(SubSuffix(part2, W_equipment, TRUE), W_hospital, FALSE)) >>

\* the body of the loop over parts: <<>> when the part is skipped, else the
\* one-element list of what is appended
CleanPart(raw) ==
    LET part  == Strip(raw)
        part2 == StripChars(part, EdgeClass)
        part3 == SubSuffix(part2, W_equipment, TRUE)
        part4 == SubSuffix(part3, W_hospital, FALSE)
    IN  IF Len(part) < 3 THEN <<>>
        ELSE IF Len(part2) < 5 THEN <<>>
        ELSE << Strip(part4) >>

CleanParts(parts) == Flatten([i \in 1..Len(parts) |-> CleanPart(parts[i])])

\* split_multi_query without the fallback to the whole query
split_multi_query_no_fallback(s) == CleanParts(SplitParts(StripPrefixes(normalize_text(s))))

split_multi_query(s) ==
    LET q       == StripPrefixes(normalize_text(s))
        queries == CleanParts(SplitParts(q))
    IN  IF queries = <<>> THEN << Strip(q) >> ELSE queries

-----------------------------------------------------------------------------
(* is_relevant_by_density                                                  *)
(* A relevancy is a float in [0,1], held as a whole percentage: the code   *)
(* only compares it with 0.80 and 0.60.                                    *)

\* dict.get(key, default)
Get(m, key, default) == IF key \in DOMAIN m THEN m[key] ELSE default

\* is_relevant_by_density with the strong-hit test strict (> 0.80 for >= 0.80)
is_relevant_by_density_strict(tm) ==
    IF tm = <<>> THEN FALSE
    ELSE IF Get(tm[1], "relevancy", 0) > 80 THEN TRUE
    ELSE Len(SelectSeq(tm, LAMBDA m : Get(m, "relevancy", 0) >= 60)) >= 2

is_relevant_by_density(tm) ==
    IF tm = <<>> THEN FALSE
    ELSE IF Get(tm[1], "relevancy", 0) >= 80 THEN TRUE
    ELSE LET strong == SelectSeq(tm, LAMBDA m : Get(m, "relevancy", 0) >= 60)
         IN  IF Len(strong) >= 2 THEN TRUE ELSE FALSE

MaxMatches == 3

\* the matches handed to is_relevant_by_density: a relevancy around the two
\* thresholds, or a dict without the key
DensityMatches ==
    { [relevancy |-> v] : v \in {0, 50, 59, 60, 62, 65, 79, 80, 85, 100} }
        \cup { [title |-> <<"x">>] }

InitDensity ==
    /\ PipelineIdle
    /\ top_matches \in UNION { [1..n -> DensityMatches] : n \in 0..MaxMatches }
    /\ pc = "start"
    /\ relevant = None
    /\ query = None /\ top_k = None /\ INDEX = None
    /\ HAS_ANALYSER_MODEL = None /\ HAS_ENDO_MODEL = None
    /\ individual_queries = None /\ all_results = None /\ response = None
    /\ scorer_calls = None /\ HelpersIdle

CallDensity ==
    /\ pc = "start"
    /\ relevant' = is_relevant_by_density(top_matches)
    /\ pc' = "returned"
    /\ UNCHANGED <<pipeline_vars, query, top_k, INDEX, HAS_ANALYSER_MODEL, HAS_ENDO_MODEL,
                   individual_queries, all_results, response, top_matches,
                   scorer_calls, helper_vars>>

NextDensity == CallDensity

SpecDensity == InitDensity /\ [][NextDensity]_vars

\* C8: is_relevant is true exactly when top_matches is non-empty and either
\* its first entry has relevancy >= 0.80 or at least two of its entries have
\* relevancy >= 0.60; it is false in every other case, the empty list included.
Thm_C8_DensityRule ==
    pc = "returned" =>
        (relevant = TRUE <=>
            /\ Len(top_matches) >= 1
            /\ \/ Get(top_matches[1], "relevancy", 0) >= 80
               \/ Cardinality({i \in 1..Len(top_matches) :
                                  Get(top_matches[i], "relevancy", 0) >= 60}) >= 2)

\* C8 witness: two clustered matches, 0.65 and 0.62, the top one below 0.80
Wit_C8_ClusteredMatches ==
    /\ pc = "returned"
    /\ top_matches = << [relevancy |-> 65], [relevancy |-> 62] >>
    /\ relevant = TRUE

-----------------------------------------------------------------------------
(* Tokens                                                                  *)

\* [a-z0-9] of norm_token_list
Alnum == LowerLetters \cup Digits

\* norm_token_list as a set: the maximal [a-z0-9]+ runs of the lowercased,
\* normalized text that are longer than 2 characters
token_set(s) ==
    LET l      == Lower(normalize_text(s))
        starts == {i \in 1..Len(l) : l[i] \in Alnum /\ (i = 1 \/ l[i - 1] \notin Alnum)}
        runs   == {SubSeq(l, i, SkipWhile(l, i, Alnum) - 1) : i \in starts}
    IN  {t \in runs : Len(t) > 2}

\* re.findall(r"[a-z0-9]+", l) from position i on, the runs longer than 2 kept
RECURSIVE TokensFrom(_, _)
TokensFrom(l, i) ==
    IF i > Len(l) THEN <<>>
    ELSE IF l[i] \notin Alnum THEN TokensFrom(l, i + 1)
    ELSE (IF SkipWhile(l, i, Alnum) - i > 2
          THEN << SubSeq(l, i, SkipWhile(l, i, Alnum) - 1) >> ELSE <<>>)
         \o TokensFrom(l, SkipWhile(l, i, Alnum))

norm_token_list(s) == TokensFrom(Lower(normalize_text(s)), 1)

\* the unit of a float the code does arithmetic on: 1.0 is SCALE
SCALE == 60000

\* token_overlap with the target's tokens put for the common ones
token_overlap_target_only(q, t) ==
    IF token_set(q) = {} THEN 0
    ELSE (SCALE * Cardinality(token_set(t))) \div Cardinality(token_set(q))

\* len(q & t) / len(q), in SCALE-ths
token_overlap(q, t) ==
    LET qs == token_set(q)
        ts == token_set(t)
    IN  IF qs = {} THEN 0
        ELSE (SCALE * Cardinality(qs \cap ts)) \div Cardinality(qs)

-----------------------------------------------------------------------------
(* detect_category_from_query                                              *)

\* The value None where the code holds "a str or None": a one-element
\* sequence that is no string of characters.
NoneStr == << "None" >>

\* printable ASCII characters in code point order
AsciiChars ==
    <<" ", "!", "#", "$", "%", "&", "'", "(", ")", "*", "+", ",", "-", ".", "/",
      "0", "1", "2", "3", "4", "5", "6", "7", "8", "9", ":", ";", "<", "=", ">", "?",
      "@", "A", "B", "C", "D", "E", "F", "G", "H", "I", "J", "K", "L", "M", "N", "O",
      "P", "Q", "R", "S", "T", "U", "V", "W", "X", "Y", "Z", "[", "]", "^", "_",
      "a", "b", "c", "d", "e", "f", "g", "h", "i", "j", "k", "l", "m", "n", "o",
      "p", "q", "r", "s", "t", "u", "v", "w", "x", "y", "z", "{", "|", "}", "~">>

\* ord(c), for the order of str comparison
CharCode(c) == CHOOSE i \in 1..Len(AsciiChars) : AsciiChars[i] = c

\* a < b for two str
RECURSIVE StrLess(_, _)
StrLess(a, b) ==
    IF b = <<>> THEN FALSE
    ELSE IF a = <<>> THEN TRUE
    ELSE IF Head(a) = Head(b) THEN StrLess(Tail(a), Tail(b))
    ELSE CharCode(Head(a)) < CharCode(Head(b))

\* w in s
Contains(s, w) == \E i \in 1..(Len(s) - Len(w) + 1) : OccursAt(s, i, w)

\* Rules of CATEGORY_KEYWORDS, in the order of the dict (a key written twice
\* keeps its first place); each is <<keyword, category>>.
CATEGORY_KEYWORDS ==
    <<<< <<"p", "i", "p", "e", "t", "t", "e">>,
          <<"P", "i", "p", "e", "t", "t", "e", "s">> >>,
       << <<"p", "i", "p", "e", "t", "t", "e", "s">>,
          <<"P", "i", "p", "e", "t", "t", "e", "s">> >>,
       << <<"f", "i", "x", "e", "d", " ", "v", "o", "l", "u", "m", "e">>,
          <<"P", "i", "p", "e", "t", "t", "e", "s">> >>,
       << <<"h", "i", "v">>,
          <<"E", "l", "i", "s", "a">> >>,
       << <<"c", "r", "p">>,
          <<"T", "u", "r", "b", "i", "d", "i", "m", "e", "t", "r", "y">> >>,
       << <<"r", "f">>,
          <<"N", "e", "p", "h", "e", "l", "o", "m", "e", "t", "r", "y">> >>,
       << <<"a", "s", "o">>,
          <<"N", "e", "p", "h", "e", "l", "o", "m", "e", "t", "r", "y">> >>,
       << <<"a", "n", "a", "l", "y", "s", "e", "r">>,
          <<"A", "n", "a", "l", "y", "s", "e", "r">> >>,
       << <<"a", "n", "a", "l", "y", "z", "e", "r">>,
          <<"A", "n", "a", "l", "y", "s", "e", "r">> >>,
       << <<"h", "b">>,
          <<"A", "n", "a", "l", "y", "s", "e", "r">> >>,
       << <<"r", "a", "p", "i", "d">>,
          <<"R", "a", "p", "i", "d", "s">> >>,
       << <<"e", "l", "i", "s", "a">>,
          <<"E", "l", "i", "s", "a">> >>,
       << <<"c", "b", "c">>,
          <<"A", "n", "a", "l", "y", "s", "e", "r">> >>,
       << <<"s", "u", "t", "u", "r", "e">>,
          <<"E", "n", "d", "o">> >>,
       << <<"e", "n", "d", "o">>,
          <<"E", "n", "d", "o">> >>,
       << <<"S", "i", "l", "k", " ", "B", "l", "a", "c", "k">>,
          <<"E", "n", "d", "o">> >>,
       << <<"C", "u", "t", "t", "i", "n", "g">>,
          <<"E", "n", "d", "o">> >>,
       << <<"s", "i", "l", "k", " ", "b", "l", "a", "c", "k">>,
          <<"E", "n", "d", "o">> >> >>

\* the key of hits.sort(reverse=True): (len(kw), kw, cat) compared as tuples
HitLess(h1, h2) ==
    \/ Len(h1[1]) < Len(h2[1])
    \/ Len(h1[1]) = Len(h2[1]) /\ StrLess(h1[1], h2[1])

\* CatalogVote with "score >= best_score": the last item with the most tokens
CatalogVote_last_max(q, index_items) ==
    LET q_tokens == token_set(q)
        score(i) ==
            Cardinality(q_tokens \cap
                token_set(index_items[i].title \o <<" ">> \o index_items[i].category \o <<" ">>
                          \o index_items[i].type \o <<" ">> \o index_items[i].merged_text))
        best_score == IF index_items = <<>> THEN 0
                      ELSE SetMax({score(i) : i \in 1..Len(index_items)})
        last == SetMax({i \in 1..Len(index_items) : score(i) = best_score})
    IN  IF best_score > 0
        THEN IF index_items[last].category # <<>> THEN index_items[last].category
             ELSE index_items[last].type
        ELSE NoneStr

\* the category of the item with the most query tokens, "category or type"
CatalogVote(q, index_items) ==
    LET q_tokens == token_set(q)
        score(i) ==
            Cardinality(q_tokens \cap
                token_set(index_items[i].title \o <<" ">> \o index_items[i].category \o <<" ">>
                          \o index_items[i].type \o <<" ">> \o index_items[i].merged_text))
        best_score == IF index_items = <<>> THEN 0
                      ELSE SetMax({score(i) : i \in 1..Len(index_items)})
        first == SetMin({i \in 1..Len(index_items) : score(i) = best_score})
    IN  IF best_score > 0
        THEN IF index_items[first].category # <<>> THEN index_items[first].category
             ELSE index_items[first].type
        ELSE NoneStr

\* detect_category_from_query without hits.sort: the first rule that matches
detect_category_first_hit(q, index_items) ==
    LET ql   == Lower(normalize_text(q))
        hits == {k \in 1..Len(CATEGORY_KEYWORDS) : Contains(ql, CATEGORY_KEYWORDS[k][1])}
    IN  IF hits # {} THEN CATEGORY_KEYWORDS[SetMin(hits)][2]
        ELSE CatalogVote(q, index_items)

\* detect_category_from_query with the keyword lowered for the substring test
detect_category_keyword_lowered(q, index_items) ==
    LET ql   == Lower(normalize_text(q))
        hits == {k \in 1..Len(CATEGORY_KEYWORDS) : Contains(ql, Lower(CATEGORY_KEYWORDS[k][1]))}
        top  == CHOOSE k \in hits :
                    \A j \in hits : j = k \/ HitLess(CATEGORY_KEYWORDS[j], CATEGORY_KEYWORDS[k])
    IN  IF hits # {} THEN CATEGORY_KEYWORDS[top][2]
        ELSE CatalogVote(q, index_items)

detect_category_from_query(q, index_items) ==
    LET ql   == Lower(normalize_text(q))
        hits == {k \in 1..Len(CATEGORY_KEYWORDS) : Contains(ql, CATEGORY_KEYWORDS[k][1])}
        top  == CHOOSE k \in hits :
                    \A j \in hits : j = k \/ HitLess(CATEGORY_KEYWORDS[j], CATEGORY_KEYWORDS[k])
    IN  IF hits # {} THEN CATEGORY_KEYWORDS[top][2]
        ELSE CatalogVote(q, index_items)

\* a str or None taken as a condition
Truthy(str) == str # NoneStr /\ str # <<>>

-----------------------------------------------------------------------------
(* The catalog                                                             *)

\* the value None of an item's "index" (the modelled indexes are >= 0)
NoIndex == -1

MaxCatalog == 2

\* records of the index file as INDEX holds them, before "index" is set
ItemPool ==
 << [ index |-> NoIndex,
      product_code |-> <<"H", "L", "2", "0", "0">>,
      title |-> <<"s", "a", "f", "e", "t", "y", " ", "h", "e", "l", "m", "e", "t">>,
      type |-> <<"h", "e", "l", "m", "e", "t">>,
      category |-> <<"p", "p", "e">>,
      specification |-> <<>>,
      merged_text |-> <<"s", "a", "f", "e", "t", "y", " ", "h", "e", "l", "m", "e", "t", " ", "p", "p", "e">> ],
    [ index |-> NoIndex,
      product_code |-> <<"G", "L", "1", "0", "0">>,
      title |-> <<"n", "i", "t", "r", "i", "l", "e", " ", "g", "l", "o", "v", "e", "s">>,
      type |-> <<"g", "l", "o", "v", "e", "s">>,
      category |-> <<"p", "p", "e">>,
      specification |-> <<>>,
      merged_text |-> <<"n", "i", "t", "r", "i", "l", "e", " ", "g", "l", "o", "v", "e", "s", " ", "p", "p", "e">> ],
    [ index |-> NoIndex,
      product_code |-> <<>>,
      title |-> <<"c", "b", "c", " ", "a", "n", "a", "l", "y", "s", "e", "r">>,
      type |-> <<"a", "n", "a", "l", "y", "s", "e", "r">>,
      category |-> <<"A", "n", "a", "l", "y", "s", "e", "r">>,
      specification |-> <<>>,
      merged_text |-> <<"c", "b", "c", " ", "a", "n", "a", "l", "y", "s", "e", "r", " ", "h", "e", "m", "a", "t", "o", "l", "o", "g", "y">> ],
    [ index |-> NoIndex,
      product_code |-> <<"S", "K", "1">>,
      title |-> <<"s", "u", "t", "u", "r", "e", " ", "k", "i", "t">>,
      type |-> <<"E", "n", "d", "o">>,
      category |-> <<"E", "n", "d", "o">>,
      specification |-> <<>>,
      merged_text |-> <<"s", "u", "t", "u", "r", "e", " ", "k", "i", "t">> ] >>

ItemAt(i) == ItemPool[((i - 1) % Len(ItemPool)) + 1]

\* how the index file numbers its records: in file order, against file order,
\* or not at all
IndexModes == {"ascending", "descending", "absent"}

FileIndex(mode, i, n) ==
    CASE mode = "ascending" -> i - 1
      [] mode = "descending" -> n - i
      [] OTHER -> NoIndex

Catalog(n, mode) == [i \in 1..n |-> [ItemAt(i) EXCEPT !.index = FileIndex(mode, i, n)]]

Catalogs == { Catalog(n, mode) : n \in 0..MaxCatalog, mode \in IndexModes }

-----------------------------------------------------------------------------
(* sanitize_match                                                          *)

\* an object that is no dict: .get on it raises AttributeError
NotADict == [not_a_dict |-> TRUE]

IsDict(raw) == "not_a_dict" \notin DOMAIN raw

\* raw.get(k1) or raw.get(k2) or ... or 0.0
FirstNumber(raw, keys) ==
    LET hit == {k \in 1..Len(keys) : keys[k] \in DOMAIN raw /\ raw[keys[k]] # 0}
    IN  IF hit = {} THEN 0 ELSE raw[keys[SetMin(hit)]]

\* str(raw.get(k1) or raw.get(k2) or ... or "")
FirstString(raw, keys) ==
    LET hit == {k \in 1..Len(keys) : keys[k] \in DOMAIN raw /\ raw[keys[k]] # <<>>}
    IN  IF hit = {} THEN <<>> ELSE raw[keys[SetMin(hit)]]

\* sanitize_match that hands a non-empty dict back as it came
sanitize_match_as_given(raw) ==
    IF DOMAIN raw = {}
    THEN [ index |-> NoIndex, product_code |-> <<>>, title |-> <<>>, type |-> <<>>,
           category |-> <<>>, specification |-> <<>>, emb_score |-> 0, token_score |-> 0,
           title_overlap |-> 0, raw_score |-> 0, relevancy |-> 0 ]
    ELSE raw

\* sanitize_match of a dict (of an object that is no dict it raises)
sanitize_match(raw) ==
    IF DOMAIN raw = {}
    THEN [ index |-> NoIndex, product_code |-> <<>>, title |-> <<>>, type |-> <<>>,
           category |-> <<>>, specification |-> <<>>, emb_score |-> 0, token_score |-> 0,
           title_overlap |-> 0, raw_score |-> 0, relevancy |-> 0 ]
    ELSE [ index |-> Get(raw, "index", NoIndex),
           product_code |-> FirstString(raw, <<"product_code">>),
           title |-> FirstString(raw, <<"title">>),
           type |-> FirstString(raw, <<"type">>),
           category |-> FirstString(raw, <<"category">>),
           specification |-> FirstString(raw, <<"specification", "spec", "specification_text">>),
           emb_score |-> FirstNumber(raw, <<"emb_score", "emb">>),
           token_score |-> FirstNumber(raw, <<"token_score", "token">>),
           title_overlap |-> FirstNumber(raw, <<"title_overlap", "title_tok">>),
           raw_score |-> FirstNumber(raw, <<"raw_score">>),
           relevancy |-> FirstNumber(raw, <<"relevancy", "relevancy_score", "relevancy_local">>) ]

-----------------------------------------------------------------------------
(* predict_single: the generic path                                        *)

\* the weights, in hundredths
EMB_WEIGHT == 100
TOKEN_WEIGHT == 35
TITLE_WEIGHT == 50
CATEGORY_BOOST == 25
TOP_K == 5

\* LogitTable[k] is the least raw score, in SCALE-ths, whose sigmoid is >= k/100
LogitTable ==
    << -275707, -233509, -208565, -190683, -176666, -165092, -155201, -146540, -138818,
       -131833, -125444, -119545, -114057, -108917, -104076, -99493, -95137, -90980,
       -87000, -83177, -79495, -75939, -72498, -69160, -65916, -62758, -59677,
       -56667, -53723, -50837, -48007, -45226, -42491, -39797, -37142, -34521,
       -31933, -29372, -26838, -24327, -21837, -19366, -16911, -14469, -12040,
       -9620, -7208, -4802, -2400, 0, 2401, 4803, 7209, 9621,
       12041, 14470, 16912, 19367, 21838, 24328, 26839, 29373, 31934,
       34522, 37143, 39798, 42492, 45227, 48008, 50838, 53724, 56668,
       59678, 62759, 65917, 69161, 72499, 75940, 79496, 83178, 87001,
       90981, 95138, 99494, 104077, 108918, 114058, 119546, 125445, 131834,
       138819, 146541, 155202, 165093, 176667, 190684, 208566, 233510, 275708 >>

\* 1.0 / (1.0 + math.exp(-raw)) as a whole percentage, rounded down
Sigmoid(raw) == Cardinality({k \in 1..99 : raw >= LogitTable[k]})

\* \w of the regular expressions
IsWordChar(c) == LowerChar(c) \in Alnum \/ c = "_"

\* \b at the gap before position i of s
WordBoundary(s, i) ==
    (i > 1 /\ i - 1 <= Len(s) /\ IsWordChar(s[i - 1])) # (i >= 1 /\ i <= Len(s) /\ IsWordChar(s[i]))

\* re.search(r"\b" + re.escape(pc) + r"\b", q_lower)
WholeWordIn(code, q_lower) ==
    \E i \in 1..(Len(q_lower) - Len(code) + 1) :
        /\ OccursAt(q_lower, i, code)
        /\ WordBoundary(q_lower, i)
        /\ WordBoundary(q_lower, i + Len(code))

\* ScoreItem with CATEGORY_BOOST added whenever a category was detected, the
\* item's category and type not looked at
ScoreItem_boost_unconditional(q, detected_category, i, item, emb) ==
    LET tok       == token_overlap(q, item.merged_text)
        title_tok == token_overlap(q, item.title)
        base      == (EMB_WEIGHT * emb + TOKEN_WEIGHT * tok + TITLE_WEIGHT * title_tok) \div 100
        boost     == IF Truthy(detected_category) THEN (CATEGORY_BOOST * SCALE) \div 100 ELSE 0
        pc_low    == Lower(item.product_code)
        sku       == IF pc_low # <<>> /\ WholeWordIn(pc_low, Lower(q))
                     THEN SCALE \div 2 ELSE 0
        raw       == base + boost + sku
    IN  [ index |-> IF item.index # NoIndex THEN item.index ELSE i - 1,
          product_code |-> item.product_code,
          title |-> item.title,
          type |-> item.type,
          category |-> item.category,
          specification |-> item.specification,
          emb_score |-> emb,
          token_score |-> tok,
          title_overlap |-> title_tok,
          raw_score |-> raw,
          relevancy |-> Sigmoid(raw) ]

\* the body of the loop over INDEX: the match of item i (1-based) for query q,
\* emb the entry of sims for it
ScoreItem(q, detected_category, i, item, emb) ==
    LET tok       == token_overlap(q, item.merged_text)
        title_tok == token_overlap(q, item.title)
        base      == (EMB_WEIGHT * emb + TOKEN_WEIGHT * tok + TITLE_WEIGHT * title_tok) \div 100
        boost     == IF /\ Truthy(detected_category)
                        /\ \/ Contains(Lower(item.category), Lower(detected_category))
                           \/ Contains(Lower(item.type), Lower(detected_category))
                     THEN (CATEGORY_BOOST * SCALE) \div 100 ELSE 0
        pc_low    == Lower(item.product_code)
        sku       == IF pc_low # <<>> /\ WholeWordIn(pc_low, Lower(q))
                     THEN SCALE \div 2 ELSE 0
        raw       == base + boost + sku
    IN  [ index |-> IF item.index # NoIndex THEN item.index ELSE i - 1,
          product_code |-> item.product_code,
          title |-> item.title,
          type |-> item.type,
          category |-> item.category,
          specification |-> item.specification,
          emb_score |-> emb,
          token_score |-> tok,
          title_overlap |-> title_tok,
          raw_score |-> raw,
          relevancy |-> Sigmoid(raw) ]

\* results.sort(key=lambda x: x["raw_score"], reverse=True): stable, so equal
\* keys keep the order of the list
SortByRawScore(results) ==
    LET rank(i) == 1 + Cardinality({j \in 1..Len(results) :
                        \/ results[j].raw_score > results[i].raw_score
                        \/ results[j].raw_score = results[i].raw_score /\ j < i})
    IN  [k \in 1..Len(results) |-> results[CHOOSE i \in 1..Len(results) : rank(i) = k]]

\* results[:top_k]: a negative top_k counts from the end
SliceTo(results, k) ==
    LET stop == IF k < 0 THEN Len(results) + k ELSE k
    IN  SubSeq(results, 1, IF stop > Len(results) THEN Len(results) ELSE stop)

\* the dict of the global fallback with "best or {}" for its best_match
GenericReturn_best_or_empty(q, detected_category, top) ==
    [ query |-> q,
      detected_category |-> detected_category,
      relevancy_score |-> IF top # <<>> THEN top[1].relevancy ELSE 0,
      relevant |-> is_relevant_by_density(top),
      best_match |-> IF top # <<>> THEN top[1] ELSE <<>>,
      top_matches |-> top,
      model_used |-> "global_index" ]

\* the dict the global fallback returns for its top matches
GenericReturn(q, detected_category, top) ==
    [ query |-> q,
      detected_category |-> detected_category,
      relevancy_score |-> IF top # <<>> THEN top[1].relevancy ELSE 0,
      relevant |-> is_relevant_by_density(top),
      best_match |-> IF top # <<>> THEN top[1] ELSE sanitize_match(<<>>),
      top_matches |-> top,
      model_used |-> "global_index" ]

\* the "global fallback" part of predict_single, sims the encoder's similarities
GenericResult(q, detected_category, k, index_items, sims) ==
    GenericReturn(q, detected_category,
        SliceTo(SortByRawScore([i \in 1..Len(index_items) |->
                    ScoreItem(q, detected_category, i, index_items[i], sims[i])]), k))

-----------------------------------------------------------------------------
(* Inputs of split_multi_query                                             *)

MaxPieces == 3

Pieces ==
    { <<"s", "u", "p", "p", "l", "y", " ", "o", "f", " ", "-", " ">>,
      <<"R", "e", "q", "u", "i", "r", "e", "m", "e", "n", "t", " ", "o", "f", ":">>,
      <<"h", "e", "l", "m", "e", "t", "s">>,
      <<"g", "l", "o", "v", "e", "s">>,
      <<"a", "b", "c">>,
      <<"a">>,
      <<",", " ">>,
      <<";">>,
      <<"|">>,
      <<"\n">>,
      <<" ">>,
      <<"-">>,
      <<"2", ".">>,
      <<"U00A0">>,
      <<" ", "-", " ", "c", "i", "t", "y", " ", "h", "o", "s", "p", "i", "t", "a", "l">>,
      <<" ", "-", " ", "g", "m", "c", " ", "E", "q", "u", "i", "p", "m", "e", "n", "t", "s">> }

Q_a_b == <<"a", ",", " ", "b">>
Q_single == <<"s", "i", "n", "g", "l", "e", " ", "r", "e", "q", "u", "i", "r", "e", "m", "e", "n", "t">>
Q_helmet3 == <<"h", "e", "l", "m", "e", "t", ",", " ", "g", "l", "o", "v", "e", "s", ",", " ", "b", "o", "o", "t", "s">>
Q_supply7 ==
    <<"s", "u", "p", "p", "l", "y", " ", "o", "f", " ", "-", " ", "h", "e", "l", "m", "e", "t", "s",
      ",", " ", "g", "l", "o", "v", "e", "s", " ", "-", " ", "c", "i", "t", "y", " ",
      "h", "o", "s", "p", "i", "t", "a", "l">>

ExampleQueries == {Q_a_b, Q_single, Q_helmet3, Q_supply7}

SplitInputs ==
    ExampleQueries \cup
    { Flatten(ps) : ps \in UNION { [1..n -> Pieces] : n \in 0..MaxPieces } }

-----------------------------------------------------------------------------
(* Calling split_multi_query on its own                                    *)

InitSplit ==
    /\ PipelineIdle
    /\ query \in SplitInputs
    /\ pc = "start"
    /\ individual_queries = None
    /\ top_k = None /\ INDEX = None /\ all_results = None /\ response = None
    /\ HAS_ANALYSER_MODEL = None /\ HAS_ENDO_MODEL = None
    /\ top_matches = None /\ relevant = None
    /\ scorer_calls = None /\ HelpersIdle

CallSplit ==
    /\ pc = "start"
    /\ individual_queries' = split_multi_query(query)
    /\ pc' = "returned"
    /\ UNCHANGED <<pipeline_vars, query, top_k, INDEX, HAS_ANALYSER_MODEL, HAS_ENDO_MODEL, all_results,
                   response, top_matches, relevant,
                   scorer_calls, helper_vars>>

NextSplit == CallSplit

SpecSplit == InitSplit /\ [][NextSplit]_vars

-----------------------------------------------------------------------------
(* predict_single: the specialized scorers                                 *)
(* analyser_relevancy and endo_relevancy are imported collaborators: what  *)
(* they return is any object, and they may raise.                          *)

MaxScorerMatches == 2

\* an entry of a scorer's top_matches, or its best_match
ScorerMatch ==
    [ index |-> 7, title |-> <<"x">>, raw_score |-> 90000, relevancy |-> 82 ]

\* a match of a scorer that reports its relevancy as 82.0 (per cent)
ScorerMatchPercent ==
    [ index |-> 7, title |-> <<"x">>, raw_score |-> 90000, relevancy |-> 8200 ]

\* what a call of analyser_predict / predict_endo ends with
ScorerOutcomes ==
    { [kind |-> "raise"], [kind |-> "return", value |-> NotADict],
      [kind |-> "return", value |-> <<>>],
      [kind |-> "return",
       value |-> [relevancy_score |-> 8200, relevant |-> TRUE,
                  best_match |-> ScorerMatchPercent,
                  top_matches |-> << ScorerMatchPercent >>]] }
    \cup
    { [kind |-> "return",
       value |-> [relevancy_score |-> 82, relevant |-> TRUE,
                  best_match |-> ScorerMatch, top_matches |-> ms]] :
        ms \in { [i \in 1..n |-> ScorerMatch] : n \in 0..MaxScorerMatches }
                 \cup { << NotADict >>, << ScorerMatch, NotADict >> } }

\* the try block taken to run to its return whenever the scorer returns
Sanitizable_any_return(o) == o.kind = "return"

\* the try block runs to its return: nothing in it raises
Sanitizable(o) ==
    /\ o.kind = "return"
    /\ IsDict(o.value)
    /\ IsDict(Get(o.value, "best_match", <<>>))
    /\ \A i \in 1..Len(Get(o.value, "top_matches", <<>>)) : IsDict(o.value.top_matches[i])

\* the dict returned from the analyser try block
AnalyserResult(q, r) ==
    [ query |-> q,
      detected_category |-> <<"A", "n", "a", "l", "y", "s", "e", "r">>,
      relevancy_score |-> FirstNumber(r, <<"relevancy_score", "relevancy">>),
      relevant |-> Get(r, "relevant", FALSE),
      best_match |-> sanitize_match(Get(r, "best_match", <<>>)),
      top_matches |-> [i \in 1..Len(Get(r, "top_matches", <<>>)) |->
                          sanitize_match(r.top_matches[i])],
      model_used |-> "analyser_relevancy" ]

\* the dict returned from the endo try block
EndoResult(q, r) ==
    LET best == sanitize_match(Get(r, "best_match", <<>>))
        score == FirstNumber(r, <<"relevancy_score", "relevancy">>)
    IN  [ query |-> q,
          detected_category |-> <<"E", "n", "d", "o">>,
          relevancy_score |-> IF score # 0 THEN score ELSE best.relevancy,
          relevant |-> Get(r, "relevant", FALSE),
          best_match |-> best,
          top_matches |-> [i \in 1..Len(Get(r, "top_matches", <<>>)) |->
                              sanitize_match(r.top_matches[i])],
          model_used |-> "endo_relevancy" ]

\* Route without the tests of HAS_ANALYSER_MODEL and HAS_ENDO_MODEL
Route_unregistered(detected_category, has_analyser, has_endo) ==
    IF Truthy(detected_category)
       /\ Lower(detected_category) = <<"a", "n", "a", "l", "y", "s", "e", "r">>
    THEN "analyser"
    ELSE IF Truthy(detected_category) /\ Lower(detected_category) = <<"e", "n", "d", "o">>
         THEN "endo"
         ELSE "none"

\* which scorer predict_single calls for a detected category: "analyser",
\* "endo" or "none"
Route(detected_category, has_analyser, has_endo) ==
    IF /\ Truthy(detected_category)
       /\ Lower(detected_category) = <<"a", "n", "a", "l", "y", "s", "e", "r">>
       /\ has_analyser
    THEN "analyser"
    ELSE IF /\ Truthy(detected_category)
            /\ Lower(detected_category) = <<"e", "n", "d", "o">>
            /\ has_endo
         THEN "endo"
         ELSE "none"

-----------------------------------------------------------------------------
(* predict                                                                 *)

MaxTopK == 2

\* cosine similarities the encoder and EMB give, in SCALE-ths: -0.3 and 0.8
EmbValues == {-18000, 48000}

Q_cbc_suture == <<"c", "b", "c", " ", "a", "n", "a", "l", "y", "s", "e", "r", ",", " ", "s", "u", "t", "u", "r", "e", " ", "k", "i", "t">>
Q_gloves_sku == <<"g", "l", "o", "v", "e", "s", " ", "g", "l", "1", "0", "0">>

PredictQueries == {Q_a_b, Q_single, Q_helmet3, Q_cbc_suture, Q_gloves_sku}

\* a float quotient a / b
Ratio(a, b) == [num |-> a, den |-> b]

RECURSIVE SumOf(_, _)
SumOf(rs, field) == IF rs = <<>> THEN 0 ELSE Head(rs)[field] + SumOf(Tail(rs), field)

\* result["query_number"] = idx with the count started at 0
attach_query_number_from_zero(result, idx) == [query_number |-> idx - 1] @@ result

\* result["query_number"] = idx
attach_query_number(result, idx) == [query_number |-> idx] @@ result

\* the response of predict with every result counted as a relevant match
BuildResponse_counts_all(q, queries, results) ==
    [ is_multi_query |-> Len(queries) > 1,
      original_query |-> q,
      query_count |-> Len(queries),
      individual_queries |-> queries,
      results |-> results,
      summary |->
        [ total_queries |-> Len(queries),
          relevant_matches |-> Len(results),
          irrelevant_matches |-> 0,
          average_relevancy |->
              IF results # <<>> THEN Ratio(SumOf(results, "relevancy_score"), Len(results))
              ELSE Ratio(0, 1),
          success_rate |-> Ratio(1, 1) ] ]

\* the summary and the response dict of predict
BuildResponse(q, queries, results) ==
    LET relevant_count == Len(SelectSeq(results, LAMBDA r : r.relevant))
    IN  [ is_multi_query |-> Len(queries) > 1,
          original_query |-> q,
          query_count |-> Len(queries),
          individual_queries |-> queries,
          results |-> results,
          summary |->
            [ total_queries |-> Len(queries),
              relevant_matches |-> relevant_count,
              irrelevant_matches |-> Len(results) - relevant_count,
              average_relevancy |->
                  IF results # <<>> THEN Ratio(SumOf(results, "relevancy_score"), Len(results))
                  ELSE Ratio(0, 1),
              success_rate |->
                  IF results # <<>> THEN Ratio(relevant_count, Len(results))
                  ELSE Ratio(0, 1) ] ]

\* the catalogs predict runs over: the numbered ones, and one whose only item
\* has the same word as category and as type
PredictCatalogs == Catalogs \cup { << ItemPool[3] >> }

Init ==
    /\ PipelineIdle
    /\ query \in PredictQueries
    /\ top_k \in (-1..MaxTopK) \cup {TOP_K}
    /\ INDEX \in PredictCatalogs
    /\ HAS_ANALYSER_MODEL \in BOOLEAN
    /\ HAS_ENDO_MODEL \in BOOLEAN
    /\ pc = "start"
    /\ individual_queries = None /\ all_results = None /\ response = None
    /\ top_matches = None /\ relevant = None
    /\ scorer_calls = <<>> /\ HelpersIdle

\* predict up to the loop: the query is split
PredictStart ==
    /\ pc = "start"
    /\ individual_queries' = split_multi_query(query)
    /\ all_results' = <<>>
    /\ pc' = "loop"
    /\ UNCHANGED <<pipeline_vars, query, top_k, INDEX, HAS_ANALYSER_MODEL, HAS_ENDO_MODEL, response,
                   top_matches, relevant,
                   scorer_calls, helper_vars>>

\* the sub-query the loop is at, as predict_single normalizes it, its category
\* and its route
CurrentIdx == Len(all_results) + 1
CurrentQuery == normalize_text(individual_queries[CurrentIdx])
CurrentCategory == detect_category_from_query(CurrentQuery, INDEX)
CurrentRoute == Route(CurrentCategory, HAS_ANALYSER_MODEL, HAS_ENDO_MODEL)
InLoop == pc = "loop" /\ Len(all_results) < Len(individual_queries)

\* the call of scorer route for sub-query idx ends with o
CallScorer(idx, route, o) ==
    scorer_calls' = Append(scorer_calls, [query_number |-> idx, scorer |-> route, outcome |-> o])

\* predict_single is answered by the scorer of route, whose call ends with o
SpecializedPass(idx, q, route, o) ==
    /\ Sanitizable(o)
    /\ CallScorer(idx, route, o)
    /\ all_results' = Append(all_results,
           attach_query_number(
               IF route = "analyser" THEN AnalyserResult(q, o.value) ELSE EndoResult(q, o.value),
               idx))

\* one pass of the loop, answered by a specialized scorer
PredictSpecialized ==
    /\ InLoop
    /\ \E route \in {CurrentRoute} :
          /\ route # "none"
          /\ \E q \in {CurrentQuery}, o \in ScorerOutcomes :
                SpecializedPass(CurrentIdx, q, route, o)
    /\ UNCHANGED <<pipeline_vars, query, top_k, INDEX, HAS_ANALYSER_MODEL, HAS_ENDO_MODEL, pc,
                   individual_queries, response, top_matches, relevant, helper_vars>>

\* the way to the global fallback: no scorer is called, or the call of the
\* routed one ends in the except block
FallThrough(idx, route) ==
    \/ route = "none" /\ UNCHANGED scorer_calls
    \/ /\ route # "none"
       /\ \E o \in ScorerOutcomes : ~Sanitizable(o) /\ CallScorer(idx, route, o)

\* the global fallback of predict_single answers, sims the similarities
GenericPass(idx, q, category, sims) ==
    all_results' = Append(all_results,
        attach_query_number(GenericResult(q, category, top_k, INDEX, sims), idx))

\* one pass of the loop, answered by the global fallback
PredictGeneric ==
    /\ InLoop
    /\ \E q \in {CurrentQuery} :
       \E category \in {detect_category_from_query(q, INDEX)} :
          /\ FallThrough(CurrentIdx, Route(category, HAS_ANALYSER_MODEL, HAS_ENDO_MODEL))
          /\ \E sims \in [1..Len(INDEX) -> EmbValues] :
                GenericPass(CurrentIdx, q, category, sims)
    /\ UNCHANGED <<pipeline_vars, query, top_k, INDEX, HAS_ANALYSER_MODEL, HAS_ENDO_MODEL, pc,
                   individual_queries, response, top_matches, relevant, helper_vars>>

\* MODEL.encode or np.dot raises in the global fallback: nothing catches it
PredictEncoderRaises ==
    /\ InLoop
    /\ \E route \in {CurrentRoute} : FallThrough(CurrentIdx, route)
    /\ pc' = "raised"
    /\ UNCHANGED <<pipeline_vars, query, top_k, INDEX, HAS_ANALYSER_MODEL, HAS_ENDO_MODEL,
                   individual_queries, all_results, response, top_matches, relevant,
                   helper_vars>>

\* predict after the loop: the summary, and the return
PredictReturn ==
    /\ pc = "loop"
    /\ Len(all_results) = Len(individual_queries)
    /\ response' = BuildResponse(query, individual_queries, all_results)
    /\ pc' = "returned"
    /\ UNCHANGED <<pipeline_vars, query, top_k, INDEX, HAS_ANALYSER_MODEL, HAS_ENDO_MODEL,
                   individual_queries, all_results, top_matches, relevant,
                   scorer_calls, helper_vars>>

Next ==
    \/ PredictStart
    \/ PredictSpecialized
    \/ PredictGeneric
    \/ PredictEncoderRaises
    \/ PredictReturn

Spec == Init /\ [][Next]_vars

-----------------------------------------------------------------------------
(* Calling detect_category_from_query on its own                           *)

MaxWords == 2

\* pieces of the queries handed to detect_category_from_query
DetectWords ==
    { <<"n", "e", "e", "d", " ", "a", " ">>,
      <<"f", "i", "x", "e", "d", " ", "v", "o", "l", "u", "m", "e">>,
      <<" ", "p", "i", "p", "e", "t", "t", "e">>,
      <<"h", "i", "v">>,
      <<"c", "r", "p">>,
      <<" ", "r", "f", " ">>,
      <<"c", "b", "c">>,
      <<"a", "s", "o">>,
      <<" ", "a", "n", "a", "l", "y", "s", "e", "r">>,
      <<"R", "a", "p", "i", "d">>,
      <<"S", "i", "l", "k", " ", "B", "l", "a", "c", "k">>,
      <<"C", "u", "t", "t", "i", "n", "g">>,
      <<"h", "e", "l", "m", "e", "t">>,
      <<" ", "v", "i", "s", "o", "r", " ">>,
      <<"U00A0">> }

Q_pipette == <<"n", "e", "e", "d", " ", "a", " ", "f", "i", "x", "e", "d", " ", "v", "o", "l", "u", "m", "e", " ", "p", "i", "p", "e", "t", "t", "e">>

DetectInputs ==
    {Q_pipette} \cup { Flatten(ws) : ws \in UNION { [1..n -> DetectWords] : n \in 0..MaxWords } }

\* a record of the index file with a type and no category
ItemTypeOnly ==
    [ index |-> NoIndex,
      product_code |-> <<>>,
      title |-> <<"h", "e", "l", "m", "e", "t", " ", "v", "i", "s", "o", "r">>,
      type |-> <<"v", "i", "s", "o", "r">>,
      category |-> <<>>,
      specification |-> <<>>,
      merged_text |-> <<"h", "e", "l", "m", "e", "t", " ", "v", "i", "s", "o", "r">> ]

DetectItems == {ItemPool[1], ItemPool[3], ItemTypeOnly}

\* the lists handed over as index_items: every order of up to MaxCatalog items
DetectCatalogs ==
    Catalogs \cup UNION { [1..n -> DetectItems] : n \in 0..MaxCatalog }

InitDetect ==
    /\ PipelineIdle
    /\ query \in DetectInputs
    /\ INDEX \in DetectCatalogs
    /\ pc = "start"
    /\ detected = None
    /\ top_k = None /\ HAS_ANALYSER_MODEL = None /\ HAS_ENDO_MODEL = None
    /\ individual_queries = None /\ all_results = None /\ response = None
    /\ top_matches = None /\ relevant = None /\ scorer_calls = None
    /\ raw_match = None /\ sanitized = None /\ text = None
    /\ tokens = None /\ target = None /\ overlap = None /\ INDEX_RAW = None

CallDetect ==
    /\ pc = "start"
    /\ detected' = detect_category_from_query(query, INDEX)
    /\ pc' = "returned"
    /\ UNCHANGED <<pipeline_vars, query, top_k, INDEX, HAS_ANALYSER_MODEL, HAS_ENDO_MODEL,
                   individual_queries, all_results, response, top_matches, relevant,
                   scorer_calls, raw_match, sanitized, text, tokens, target, overlap,
                   INDEX_RAW>>

NextDetect == CallDetect

SpecDetect == InitDetect /\ [][NextDetect]_vars

\* the rules among ks whose keyword is a substring of ql
RulesIn(ql, ks) == {k \in ks : Contains(ql, CATEGORY_KEYWORDS[k][1])}

\* C15: when some keyword of the rule table is a substring of the normalized,
\* lowercased query, detect returns the category of a matching keyword of
\* maximal length, whatever the catalog holds; detect("need a fixed volume
\* pipette") is "Pipettes".
Thm_C15_LongestKeywordWins ==
    pc = "returned" =>
        \A matching \in {RulesIn(Lower(normalize_text(query)), 1..Len(CATEGORY_KEYWORDS))} :
            /\ matching # {} =>
                  /\ \E k \in matching :
                        /\ \A j \in matching :
                              Len(CATEGORY_KEYWORDS[j][1]) <= Len(CATEGORY_KEYWORDS[k][1])
                        /\ detected = CATEGORY_KEYWORDS[k][2]
                  /\ detected = detect_category_from_query(query, <<>>)
            /\ query = Q_pipette => detected = <<"P", "i", "p", "e", "t", "t", "e", "s">>

\* C15 witness: a query with a short and a longer keyword of different
\* categories got the category of the longer one, over a non-empty catalog
Wit_C15_RapidBeatsHiv ==
    /\ pc = "returned"
    /\ query = <<"h", "i", "v", "R", "a", "p", "i", "d">>
    /\ INDEX # <<>>
    /\ detected = <<"R", "a", "p", "i", "d", "s">>

\* the rules whose keyword is a substring of the normalized, lowercased query
MatchingRules(q) == RulesIn(Lower(normalize_text(q)), 1..Len(CATEGORY_KEYWORDS))

\* the matching rules whose keyword has the greatest length
LongestRules(q) ==
    {k \in MatchingRules(q) :
        \A j \in MatchingRules(q) : Len(CATEGORY_KEYWORDS[j][1]) <= Len(CATEGORY_KEYWORDS[k][1])}

\* C21: when several matching keywords share the maximal length and map to
\* different categories, detect returns the category of the one declared
\* first in the keyword table.
Cex_C21_TiesByDeclarationOrder ==
    pc = "returned" =>
        \A longest \in {LongestRules(query)} :
            (\E j, k \in longest : CATEGORY_KEYWORDS[j][2] # CATEGORY_KEYWORDS[k][2])
                => detected = CATEGORY_KEYWORDS[SetMin(longest)][2]

\* how many tokens of the query occur among the tokens of the item's title,
\* category, type or merged_text
OverlapCount(q, it) ==
    Cardinality({t \in token_set(q) :
        t \in token_set(it.title) \cup token_set(it.category)
                \cup token_set(it.type) \cup token_set(it.merged_text)})

\* "the category, or when that is empty the type"
CategoryOrType(it) == IF it.category # <<>> THEN it.category ELSE it.type

\* C23: when no keyword matches and a non-empty catalog is supplied, detect
\* returns the category (or, when that is empty, the type) of the first item
\* in catalog order that attains the maximum token-overlap count with the
\* query, provided that maximum is > 0; when the maximum is 0 or no catalog
\* is supplied it returns no category.
Thm_C23_CatalogVote ==
    (pc = "returned" /\ MatchingRules(query) = {}) =>
        \A counts \in {[i \in 1..Len(INDEX) |-> OverlapCount(query, INDEX[i])]} :
            IF \A i \in 1..Len(INDEX) : counts[i] = 0
            THEN detected = NoneStr
            ELSE \E i \in 1..Len(INDEX) :
                    /\ \A j \in 1..Len(INDEX) : counts[j] <= counts[i]
                    /\ \A j \in 1..(i - 1) : counts[j] < counts[i]
                    /\ detected = CategoryOrType(INDEX[i])

\* C23 witness: "helmet" has one token in common with both items; the first
\* one has no category, and its type was returned
Wit_C23_FirstOfTwoMaxima ==
    /\ pc = "returned"
    /\ query = <<"h", "e", "l", "m", "e", "t">>
    /\ INDEX = <<ItemTypeOnly, ItemPool[1]>>
    /\ OverlapCount(query, INDEX[1]) = OverlapCount(query, INDEX[2])
    /\ detected = <<"v", "i", "s", "o", "r">>

\* the rules whose keyword contains an uppercase letter
UppercaseRules ==
    {k \in 1..Len(CATEGORY_KEYWORDS) :
        \E i \in 1..Len(CATEGORY_KEYWORDS[k][1]) :
            CATEGORY_KEYWORDS[k][1][i] # LowerChar(CATEGORY_KEYWORDS[k][1][i])}

\* C27: a rule of the keyword table whose keyword contains an uppercase
\* letter is never a hit for any query; such a rule never determines the
\* detected category: detect returns what the other rules alone give, and
\* the catalog vote when none of the other rules matches.
Thm_C27_UppercaseRulesNeverHit ==
    pc = "returned" =>
        /\ MatchingRules(query) \cap UppercaseRules = {}
        /\ \A rest \in {RulesIn(Lower(normalize_text(query)),
                                  1..Len(CATEGORY_KEYWORDS) \ UppercaseRules)} :
              IF rest = {}
              THEN detected = CatalogVote(query, INDEX)
              ELSE \E k \in rest :
                      /\ \A j \in rest :
                            Len(CATEGORY_KEYWORDS[j][1]) <= Len(CATEGORY_KEYWORDS[k][1])
                      /\ detected = CATEGORY_KEYWORDS[k][2]

\* C27 witness: the query "Cutting", spelled as the rule "Cutting" -> Endo
\* spells it, got no category
Wit_C27_CuttingNotDetected ==
    /\ pc = "returned"
    /\ query = <<"C", "u", "t", "t", "i", "n", "g">>
    /\ \E k \in UppercaseRules : CATEGORY_KEYWORDS[k][1] = query
    /\ INDEX = <<>>
    /\ detected = NoneStr

-----------------------------------------------------------------------------
(* Calling sanitize_match on its own                                       *)

MaxFields == 2

\* the keys sanitize_match reads that hold a str, and those that hold a number
StringKeys ==
    {"product_code", "title", "type", "category", "specification", "spec", "specification_text"}
NumberKeys ==
    {"emb_score", "emb", "token_score", "token", "title_overlap", "title_tok", "raw_score",
     "relevancy", "relevancy_score", "relevancy_local"}

\* a value of key k in a scorer's object: a falsy one (None, "", 0.0) or not
RawValue(k, truthy) ==
    IF k \in StringKeys THEN (IF truthy THEN <<"x">> ELSE <<>>)
    ELSE IF k = "index" THEN (IF truthy THEN 7 ELSE NoIndex)
    ELSE (IF truthy THEN 50 ELSE 0)

\* the objects handed to sanitize_match: None or {} (the empty one), and dicts
\* with up to MaxFields of the keys
RawMatches ==
    { [k \in DOMAIN choice |-> RawValue(k, choice[k])] :
        choice \in UNION { [K -> BOOLEAN] :
            K \in { ks \in SUBSET (StringKeys \cup NumberKeys \cup {"index"}) :
                        Cardinality(ks) <= MaxFields } } }

InitSanitize ==
    /\ PipelineIdle
    /\ raw_match \in RawMatches
    /\ pc = "start"
    /\ sanitized = None
    /\ query = None /\ top_k = None /\ INDEX = None
    /\ HAS_ANALYSER_MODEL = None /\ HAS_ENDO_MODEL = None
    /\ individual_queries = None /\ all_results = None /\ response = None
    /\ top_matches = None /\ relevant = None /\ scorer_calls = None
    /\ detected = None /\ text = None
    /\ tokens = None /\ target = None /\ overlap = None /\ INDEX_RAW = None

CallSanitize ==
    /\ pc = "start"
    /\ sanitized' = sanitize_match(raw_match)
    /\ pc' = "returned"
    /\ UNCHANGED <<pipeline_vars, query, top_k, INDEX, HAS_ANALYSER_MODEL, HAS_ENDO_MODEL,
                   individual_queries, all_results, response, top_matches, relevant,
                   scorer_calls, detected, raw_match, text, tokens, target, overlap,
                   INDEX_RAW>>

NextSanitize == CallSanitize

SpecSanitize == InitSanitize /\ [][NextSanitize]_vars

\* the keys of the source that sanitize_match reads for each field of its result
SourceKeys ==
    [ product_code |-> {"product_code"}, title |-> {"title"}, type |-> {"type"},
      category |-> {"category"},
      specification |-> {"specification", "spec", "specification_text"},
      emb_score |-> {"emb_score", "emb"}, token_score |-> {"token_score", "token"},
      title_overlap |-> {"title_overlap", "title_tok"}, raw_score |-> {"raw_score"},
      relevancy |-> {"relevancy", "relevancy_score", "relevancy_local"} ]

\* C17: every match sanitize_match produces, also from an absent, None or
\* empty object, has all eleven fields; a score field for which the source
\* holds none of the keys read for it is 0.0, and a string field for which the
\* source holds none of its keys is the empty string.
Thm_C17_EveryFieldDefaulted ==
    pc = "returned" =>
        /\ DOMAIN sanitized =
              {"index", "product_code", "title", "type", "category", "specification",
               "emb_score", "token_score", "title_overlap", "raw_score", "relevancy"}
        /\ \A f \in {"emb_score", "token_score", "title_overlap", "raw_score", "relevancy"} :
              SourceKeys[f] \cap DOMAIN raw_match = {} => sanitized[f] = 0
        /\ \A f \in {"product_code", "title", "type", "category", "specification"} :
              SourceKeys[f] \cap DOMAIN raw_match = {} => sanitized[f] = <<>>
        /\ "index" \notin DOMAIN raw_match => sanitized.index = NoIndex

\* C17 witness: a source that holds a title only came back with the title and
\* the ten other fields at their defaults
Wit_C17_TitleOnly ==
    /\ pc = "returned"
    /\ raw_match = [title |-> <<"x">>]
    /\ sanitized = [ index |-> NoIndex, product_code |-> <<>>, title |-> <<"x">>, type |-> <<>>,
                     category |-> <<>>, specification |-> <<>>, emb_score |-> 0,
                     token_score |-> 0, title_overlap |-> 0, raw_score |-> 0, relevancy |-> 0 ]

-----------------------------------------------------------------------------
(* Calling normalize_text and norm_token_list, twice over                  *)

MaxChars == 3

\* characters of the strings handed to normalize_text
NormalizeChars == {"a", "B", "1", " ", "\n", "U00A0", "U200B", "UFB01", "U00C4"}

Q_fixed == <<"U00A0", "UFB01", "x", "e", "d", "\n", "B", "1", "a", "U200B">>

NormalizeInputs ==
    {Q_fixed} \cup UNION { [1..n -> NormalizeChars] : n \in 0..MaxChars }

InitNormalize ==
    /\ PipelineIdle
    /\ query \in NormalizeInputs
    /\ pc = "start"
    /\ text = None /\ tokens = None
    /\ top_k = None /\ INDEX = None
    /\ HAS_ANALYSER_MODEL = None /\ HAS_ENDO_MODEL = None
    /\ individual_queries = None /\ all_results = None /\ response = None
    /\ top_matches = None /\ relevant = None /\ scorer_calls = None
    /\ detected = None /\ raw_match = None /\ sanitized = None
    /\ target = None /\ overlap = None /\ INDEX_RAW = None

\* normalize_text is called on arg, and norm_token_list on what it returned
NormalizePass(arg, then) ==
    /\ text' = normalize_text(arg)
    /\ tokens' = norm_token_list(text')
    /\ pc' = then

\* the first call takes the query, the second one what the first returned
CallNormalize ==
    /\ \/ pc = "start" /\ NormalizePass(query, "normalized")
       \/ pc = "normalized" /\ NormalizePass(text, "again")
    /\ UNCHANGED <<pipeline_vars, query, top_k, INDEX, HAS_ANALYSER_MODEL, HAS_ENDO_MODEL,
                   individual_queries, all_results, response, top_matches, relevant,
                   scorer_calls, detected, raw_match, sanitized, target, overlap,
                   INDEX_RAW>>

NextNormalize == CallNormalize

SpecNormalize == InitNormalize /\ [][NextNormalize]_vars

\* C18: normalize is idempotent, and tokenize(normalize(s)) is stable: a
\* second call of normalize on what the first returned gives the same string
\* and the same token sequence.
Thm_C18_NormalizeIdempotent ==
    [][pc = "normalized" => (text' = text /\ tokens' = tokens)]_vars

\* C18 witness: a string with a no-break space, a ligature, a newline and a
\* zero-width space was normalized twice, to "fixed B1a" and one token list
Wit_C18_NormalizedTwice ==
    /\ pc = "again"
    /\ query = Q_fixed
    /\ text = <<"f", "i", "x", "e", "d", " ", "B", "1", "a">>
    /\ tokens = << <<"f", "i", "x", "e", "d">>, <<"b", "1", "a">> >>

-----------------------------------------------------------------------------
(* Calling token_overlap on its own                                        *)

MaxTokens == 2

\* pieces of the strings handed to token_overlap
OverlapWords == { <<"a", "b", "c">>, <<"a", "b">>, <<"h", "e", "l", "m", "e", "t", " ">>, <<" ">>, <<"A", "B", "C", "-">> }

OverlapInputs ==
    { Flatten(ws) : ws \in UNION { [1..n -> OverlapWords] : n \in 0..MaxTokens } }

InitOverlap ==
    /\ PipelineIdle
    /\ query \in OverlapInputs
    /\ target \in OverlapInputs
    /\ pc = "start"
    /\ overlap = None
    /\ top_k = None /\ INDEX = None
    /\ HAS_ANALYSER_MODEL = None /\ HAS_ENDO_MODEL = None
    /\ individual_queries = None /\ all_results = None /\ response = None
    /\ top_matches = None /\ relevant = None /\ scorer_calls = None
    /\ detected = None /\ raw_match = None /\ sanitized = None
    /\ text = None /\ tokens = None /\ INDEX_RAW = None

CallOverlap ==
    /\ pc = "start"
    /\ overlap' = token_overlap(query, target)
    /\ pc' = "returned"
    /\ UNCHANGED <<pipeline_vars, query, top_k, INDEX, HAS_ANALYSER_MODEL, HAS_ENDO_MODEL,
                   individual_queries, all_results, response, top_matches, relevant,
                   scorer_calls, detected, raw_match, sanitized, text, tokens, target,
                   INDEX_RAW>>

NextOverlap == CallOverlap

SpecOverlap == InitOverlap /\ [][NextOverlap]_vars

\* C19: token_overlap(q, t) lies in [0,1] for all q and t, is 0 when q has no
\* token longer than 2 characters, and token_overlap(q, q) is 1.0 when q has
\* such a token.
Thm_C19_OverlapRange ==
    pc = "returned" =>
        /\ overlap >= 0 /\ overlap <= SCALE
        /\ norm_token_list(query) = <<>> => overlap = 0
        /\ (norm_token_list(query) # <<>> /\ target = query) => overlap = SCALE

\* C19 witness: a query with two tokens was compared with itself
Wit_C19_SelfOverlap ==
    /\ pc = "returned"
    /\ query = <<"h", "e", "l", "m", "e", "t", " ", "a", "b", "c">>
    /\ target = query
    /\ overlap = SCALE

-----------------------------------------------------------------------------
(* Loading INDEX from the index file                                       *)
(* A record of the file is a function from its keys to their values; a     *)
(* value is a str, or NotAStr, and the value of "index" is tagged with its *)
(* JSON type: [int |-> n], [str |-> s] or [null |-> TRUE].                 *)

\* a JSON value that is no str (a number, a list): truthy, not an instance of str
NotAStr == << "NotAStr" >>

\* it.get(k1) or it.get(k2) or ... or ""
FirstTruthy(it, keys) ==
    LET hit == {k \in 1..Len(keys) : keys[k] \in DOMAIN it /\ it[keys[k]] # <<>>}
    IN  IF hit = {} THEN <<>> ELSE it[keys[SetMin(hit)]]

\* normalize_text of a value of the file: "" for what is no str
normalize_value(v) == IF v = NotAStr THEN <<>> ELSE normalize_text(v)

HasLetter(c) == \E i \in 1..Len(c) : LowerChar(c[i]) \in LowerLetters
HasDigit(c) == \E i \in 1..Len(c) : c[i] \in Digits

\* low in ("regular", "no slab") or low.startswith("slab")
IsPlaceholder(c) ==
    \/ Lower(c) = <<"r", "e", "g", "u", "l", "a", "r">>
    \/ Lower(c) = <<"n", "o", " ", "s", "l", "a", "b">>
    \/ OccursAt(Lower(c), 1, <<"s", "l", "a", "b">>)

\* candidates of safe_product_code: the stripped truthy values of the five
\* keys, with the stripped product_code put in front again when not empty
CodeCandidates(it) ==
    LET keys == <<"product_code", "product code", "productcode", "code", "product">>
        vals == SelectSeq([k \in 1..Len(keys) |->
                              IF keys[k] \in DOMAIN it THEN it[keys[k]] ELSE <<>>],
                          LAMBDA v : v # <<>>)
        cs   == [k \in 1..Len(vals) |-> Strip(vals[k])]
        v0   == Strip(FirstTruthy(it, <<"product_code">>))
    IN  IF v0 # <<>> THEN <<v0>> \o cs ELSE cs

safe_product_code(it) ==
    LET cs    == CodeCandidates(it)
        mixed == {k \in 1..Len(cs) : HasLetter(cs[k]) /\ HasDigit(cs[k])}
        plain == {k \in 1..Len(cs) : ~IsPlaceholder(cs[k]) /\ cs[k] # <<>>}
    IN  IF mixed # {} THEN cs[SetMin(mixed)]
        ELSE IF plain # {} THEN cs[SetMin(plain)]
        ELSE <<>>

\* the specification of an item: price placeholders are added to a slab table
ItemSpecification(it) ==
    LET spec  == normalize_value(FirstTruthy(it, <<"specification", "spec", "specification_text">>))
        kit   == IF Contains(spec, <<"k", "i", "t", "_", "p", "r", "i", "c", "e">>) THEN spec
                 ELSE spec \o <<" ", "k", "i", "t", "_", "p", "r", "i", "c", "e", ":", " ">> \o <<"U201A", "U00C4", "U00EE">>
        tests == IF Contains(kit, <<"t", "e", "s", "t", "_", "p", "r", "i", "c", "e">>) THEN kit
                 ELSE kit \o <<" ", "t", "e", "s", "t", "_", "p", "r", "i", "c", "e", ":", " ">> \o <<"U201A", "U00C4", "U00EE">>
    IN  IF Contains(spec, <<"S", "L", "A", "B", "S">>) THEN tests ELSE spec

\* it.get("index") not in (None, ""): the key is there, with a number or a
\* non-empty str
HasIndex(it) ==
    /\ "index" \in DOMAIN it
    /\ "null" \notin DOMAIN it.index
    /\ it.index # [str |-> <<>>]

\* the digits of an integer literal: the str stripped, without its sign
LiteralDigits(str) ==
    IF Strip(str) # <<>> /\ Strip(str)[1] \in {"+", "-"} THEN Tail(Strip(str)) ELSE Strip(str)

\* int(v) raises ValueError: v is a str that is no integer literal
IntRaises(v) ==
    /\ "str" \in DOMAIN v
    /\ \/ LiteralDigits(v.str) = <<>>
       \/ \E i \in 1..Len(LiteralDigits(v.str)) : LiteralDigits(v.str)[i] \notin Digits

\* int(v) of a number or of an integer literal
RECURSIVE DigitsValue(_)
DigitsValue(ds) ==
    IF ds = <<>> THEN 0
    ELSE 10 * DigitsValue(SubSeq(ds, 1, Len(ds) - 1))
         + (CHOOSE d \in 0..9 : ToString(d) = ds[Len(ds)])
IntOf(v) ==
    IF "int" \in DOMAIN v THEN v.int
    ELSE IF Strip(v.str)[1] = "-" THEN 0 - DigitsValue(LiteralDigits(v.str))
    ELSE DigitsValue(LiteralDigits(v.str))

\* the item the loop builds from record it
LoadedItem(it) ==
    LET title  == normalize_value(FirstTruthy(it, <<"title", "Title">>))
        spec   == ItemSpecification(it)
        merged == FirstTruthy(it, <<"merged_text", "mergedText">>)
    IN  [ index |-> IF HasIndex(it) THEN IntOf(it.index) ELSE NoIndex,
          product_code |-> safe_product_code(it),
          title |-> title,
          type |-> normalize_value(FirstTruthy(it, <<"type", "Type", "category">>)),
          category |-> normalize_value(FirstTruthy(it, <<"category", "Category">>)),
          specification |-> spec,
          merged_text |-> IF merged # <<>> THEN normalize_value(merged)
                          ELSE IF title # <<>> THEN normalize_text(title)
                          ELSE normalize_text(spec) ]

MaxRecords == 2

\* records of the index file: complete, empty, with keys under their other
\* names, with values of the wrong type, with an index that is no number
RawRecords ==
    { [ index |-> [int |-> 0], product_code |-> <<"H", "L", "2", "0", "0">>, title |-> <<"S", "a", "f", "e", "t", "y", " ", "H", "e", "l", "m", "e", "t">>, type |-> <<"h", "e", "l", "m", "e", "t">>,
        category |-> <<"p", "p", "e">>, specification |-> <<>>, merged_text |-> <<"s", "a", "f", "e", "t", "y", " ", "h", "e", "l", "m", "e", "t", " ", "p", "p", "e">> ],
      <<>>,
      [ Title |-> <<"g", "l", "o", "v", "e", "s">>, index |-> [str |-> <<>>], code |-> <<"G", "L", "1", "0", "0">>, Category |-> <<"p", "p", "e">> ],
      [ title |-> <<"x">>, index |-> [str |-> <<"a", "b", "c">>] ],
      [ title |-> NotAStr, product |-> <<"r", "e", "g", "u", "l", "a", "r">>, productcode |-> <<"s", "l", "a", "b", " ", "a">>, spec |-> <<"S", "L", "A", "B", "S", " ", "1">> ],
      [ title |-> <<"k", "i", "t">>, index |-> [str |-> <<"1", "2">>], productcode |-> <<"n", "o", " ", "s", "l", "a", "b">>,
        product |-> <<"k", "i", "t", "7">>, mergedText |-> <<"k", "i", "t", "\n", "b", "o", "x">> ],
      [ index |-> [null |-> TRUE], specification |-> <<"S", "L", "A", "B", "S", " ", "k", "i", "t", "_", "p", "r", "i", "c", "e", ":", " ", "5">>, title |-> <<"U00A0", "r", "x">> ],
      [ title |-> <<"y">>, index |-> [str |-> <<"1", ".", "5">>] ] }

InitLoad ==
    /\ PipelineIdle
    /\ INDEX_RAW \in UNION { [1..n -> RawRecords] : n \in 0..MaxRecords }
    /\ INDEX = <<>>
    /\ pc = "loading"
    /\ query = None /\ top_k = None
    /\ HAS_ANALYSER_MODEL = None /\ HAS_ENDO_MODEL = None
    /\ individual_queries = None /\ all_results = None /\ response = None
    /\ top_matches = None /\ relevant = None /\ scorer_calls = None
    /\ detected = None /\ raw_match = None /\ sanitized = None
    /\ text = None /\ tokens = None /\ target = None /\ overlap = None

\* the record the loop is at
LoadingRecord == INDEX_RAW[Len(INDEX) + 1]

IndexRaises(it) == HasIndex(it) /\ IntRaises(it.index)

\* one pass of the loop: the item is built and appended
LoadRecord ==
    /\ pc = "loading"
    /\ Len(INDEX) < Len(INDEX_RAW)
    /\ ~IndexRaises(LoadingRecord)
    /\ INDEX' = Append(INDEX, LoadedItem(LoadingRecord))
    /\ UNCHANGED <<pipeline_vars, query, top_k, HAS_ANALYSER_MODEL, HAS_ENDO_MODEL, pc,
                   individual_queries, all_results, response, top_matches, relevant,
                   scorer_calls, helper_vars>>

\* one pass of the loop: int(it.get("index")) raises ValueError, which leaves
\* the module's import
LoadRaises ==
    /\ pc = "loading"
    /\ Len(INDEX) < Len(INDEX_RAW)
    /\ IndexRaises(LoadingRecord)
    /\ pc' = "raised"
    /\ UNCHANGED <<pipeline_vars, query, top_k, INDEX, HAS_ANALYSER_MODEL, HAS_ENDO_MODEL,
                   individual_queries, all_results, response, top_matches, relevant,
                   scorer_calls, helper_vars>>

\* the loop is over
LoadDone ==
    /\ pc = "loading"
    /\ Len(INDEX) = Len(INDEX_RAW)
    /\ pc' = "loaded"
    /\ UNCHANGED <<pipeline_vars, query, top_k, INDEX, HAS_ANALYSER_MODEL, HAS_ENDO_MODEL,
                   individual_queries, all_results, response, top_matches, relevant,
                   scorer_calls, helper_vars>>

NextLoad ==
    \/ LoadRecord
    \/ LoadRaises
    \/ LoadDone

SpecLoad == InitLoad /\ [][NextLoad]_vars

\* C20: loading a record with missing or invalid fields (no title, no index or
\* one that is no number, no product code, no merged_text) never fails: the
\* load runs to its end and every record of the file is in the catalog.
Cex_C20_LoadNeverFails ==
    /\ pc # "raised"
    /\ pc = "loaded" => Len(INDEX) = Len(INDEX_RAW)


-----------------------------------------------------------------------------
(* run.py: scraper_worker, db_consumer and handle_signal                   *)
(* The two coroutines run on one asyncio event loop: an action is the code *)
(* between two awaits.  A row is the number of its place among the rows    *)
(* put on the queue; the gem row and the main row of a card carry the same *)
(* number.  The queue (QUEUE_MAXSIZE = 20000) is never full here.          *)

BATCH_SIZE == 10

MaxRows == 10
MaxPageRows == 5
MaxPages == 2
MaxFailures == 1

Min(a, b) == IF a < b THEN a ELSE b

\* the rows first..last, in order
RowsFromTo(first, last) == [n \in 1..(last - first + 1) |-> first + n - 1]

InitPipeline ==
    /\ SHUTDOWN = FALSE
    /\ queue = <<>>
    /\ buffer_gem = <<>> /\ buffer_main = <<>>
    /\ gem_to_commit = <<>> /\ main_to_commit = <<>>
    /\ db_gem = <<>> /\ db_main = <<>> /\ db_failed = {}
    /\ scraper_pc = "top" /\ consumer_pc = "loop"
    /\ page_no = 0 /\ total_pages = 0 /\ rows_put = 0
    /\ global_score = None /\ global_relevant = None
    /\ query = None /\ top_k = None /\ INDEX = None
    /\ HAS_ANALYSER_MODEL = None /\ HAS_ENDO_MODEL = None /\ pc = None
    /\ individual_queries = None /\ all_results = None /\ response = None
    /\ top_matches = None /\ relevant = None /\ scorer_calls = None
    /\ HelpersIdle

predict_vars == <<query, top_k, INDEX, HAS_ANALYSER_MODEL, HAS_ENDO_MODEL, pc,
                  individual_queries, all_results, response, top_matches, relevant,
                  scorer_calls, helper_vars, global_score, global_relevant>>

consumer_vars == <<buffer_gem, buffer_main, gem_to_commit, main_to_commit,
                   db_gem, db_main, db_failed, consumer_pc>>

\* handle_signal
HandleSignal ==
    /\ SHUTDOWN = FALSE
    /\ SHUTDOWN' = TRUE
    /\ UNCHANGED <<queue, consumer_vars, scraper_pc, page_no, total_pages, rows_put,
                   predict_vars>>

\* scraper_worker, "while not SHUTDOWN" found true: extract_total_counts, and
\* the scrape of page 1 is begun
ScraperBeginCycle ==
    /\ scraper_pc = "top"
    /\ SHUTDOWN = FALSE
    /\ \E t \in 1..MaxPages : total_pages' = t
    /\ page_no' = 1
    /\ scraper_pc' = "scraping"
    /\ UNCHANGED <<SHUTDOWN, queue, consumer_vars, rows_put, predict_vars>>

\* scrape_single_page_to_rows returns n rows (a page without cards, or a full
\* page), which the for loop puts on the queue; then the test of the inner
\* while loop, and the click on "next"
ScraperPage ==
    /\ scraper_pc = "scraping"
    /\ \E n \in {0, Min(MaxPageRows, MaxRows - rows_put)} :
          /\ queue' = queue \o RowsFromTo(rows_put + 1, rows_put + n)
          /\ rows_put' = rows_put + n
    /\ \/ /\ page_no < total_pages /\ SHUTDOWN = FALSE
          /\ \/ page_no' = page_no + 1 /\ scraper_pc' = "scraping"
             \/ page_no' = page_no /\ scraper_pc' = "sleeping"
       \/ /\ ~(page_no < total_pages /\ SHUTDOWN = FALSE)
          /\ page_no' = page_no /\ scraper_pc' = "sleeping"
    /\ UNCHANGED <<SHUTDOWN, consumer_vars, total_pages, predict_vars>>

\* the scrape raises: "Scraper error - retrying in 10s"
ScraperError ==
    /\ scraper_pc = "scraping"
    /\ scraper_pc' = "top"
    /\ UNCHANGED <<SHUTDOWN, queue, consumer_vars, page_no, total_pages, rows_put,
                   predict_vars>>

\* the sleep between two cycles ends, by time or by SHUTDOWN
ScraperWake ==
    /\ scraper_pc = "sleeping"
    /\ scraper_pc' = "top"
    /\ UNCHANGED <<SHUTDOWN, queue, consumer_vars, page_no, total_pages, rows_put,
                   predict_vars>>

\* "while not SHUTDOWN" found false: the scraper returns
ScraperExit ==
    /\ scraper_pc = "top"
    /\ SHUTDOWN = TRUE
    /\ scraper_pc' = "done"
    /\ UNCHANGED <<SHUTDOWN, queue, consumer_vars, page_no, total_pages, rows_put,
                   predict_vars>>

\* flush_buffers up to its await with the buffers left as they are
StartFlush_keeps_buffers(gem_batch, main_batch, then) ==
    /\ gem_to_commit' = gem_batch
    /\ main_to_commit' = main_batch
    /\ buffer_gem' = gem_batch
    /\ buffer_main' = main_batch
    /\ db_gem' = db_gem \o gem_batch
    /\ db_main' = db_main \o main_batch
    /\ consumer_pc' = then

\* flush_buffers up to its await: the buffers are taken and emptied, and the
\* two database calls are handed to the executor
StartFlush(gem_batch, main_batch, then) ==
    /\ gem_to_commit' = gem_batch
    /\ main_to_commit' = main_batch
    /\ buffer_gem' = <<>>
    /\ buffer_main' = <<>>
    /\ db_gem' = db_gem \o gem_batch
    /\ db_main' = db_main \o main_batch
    /\ consumer_pc' = then

\* db_consumer: the test of its while loop, and the call of queue.get
ConsumerLoop ==
    /\ consumer_pc = "loop"
    /\ consumer_pc' = IF SHUTDOWN /\ queue = <<>> THEN "final" ELSE "getting"
    /\ UNCHANGED <<SHUTDOWN, queue, buffer_gem, buffer_main, gem_to_commit, main_to_commit,
                   db_gem, db_main, db_failed, scraper_pc, page_no, total_pages, rows_put,
                   predict_vars>>

\* the rest of a pass of the loop, with the buffers as they are after the
\* item was appended: the two flush conditions (elapsed: BATCH_TIMEOUT has
\* passed since the last flush)
AfterGet(gem_batch, main_batch, elapsed) ==
    IF \/ Len(gem_batch) >= BATCH_SIZE \/ Len(main_batch) >= BATCH_SIZE
       \/ elapsed /\ (gem_batch # <<>> \/ main_batch # <<>>)
    THEN StartFlush(gem_batch, main_batch, "flushing")
    ELSE /\ buffer_gem' = gem_batch /\ buffer_main' = main_batch
         /\ consumer_pc' = "loop"
         /\ UNCHANGED <<gem_to_commit, main_to_commit, db_gem, db_main>>

\* queue.get returns an item, or wait_for times out on the empty queue
ConsumerGet ==
    /\ consumer_pc = "getting"
    /\ \E elapsed \in BOOLEAN :
          IF queue # <<>>
          THEN /\ queue' = Tail(queue)
               /\ AfterGet(Append(buffer_gem, Head(queue)), Append(buffer_main, Head(queue)),
                           elapsed)
          ELSE /\ queue' = queue
               /\ AfterGet(buffer_gem, buffer_main, elapsed)
    /\ UNCHANGED <<SHUTDOWN, db_failed, scraper_pc, page_no, total_pages, rows_put,
                   predict_vars>>

\* the batches whose write raised, as flush_buffers finds them in results
FailedBatches(gem_ok, main_ok) ==
    (IF gem_ok THEN {} ELSE {[table |-> "gem_tenders", rows |-> gem_to_commit]})
    \cup (IF main_ok THEN {} ELSE {[table |-> "Main_Relevency", rows |-> main_to_commit]})

\* asyncio.gather returns: each write committed or raised; the exceptions are
\* logged, and flush_buffers returns
FlushDone ==
    /\ consumer_pc \in {"flushing", "final_flushing"}
    /\ \E gem_ok \in BOOLEAN, main_ok \in BOOLEAN :
          /\ (gem_ok /\ main_ok) \/ Cardinality({f.rows : f \in db_failed}) < MaxFailures
          /\ db_failed' = db_failed \cup FailedBatches(gem_ok, main_ok)
    /\ gem_to_commit' = <<>>
    /\ main_to_commit' = <<>>
    /\ consumer_pc' = IF consumer_pc = "flushing" THEN "loop" ELSE "done"
    /\ UNCHANGED <<SHUTDOWN, queue, buffer_gem, buffer_main, db_gem, db_main, scraper_pc,
                   page_no, total_pages, rows_put, predict_vars>>

\* after the loop: the final flush, if a buffer holds rows
ConsumerFinal ==
    /\ consumer_pc = "final"
    /\ IF buffer_gem # <<>> \/ buffer_main # <<>>
       THEN StartFlush(buffer_gem, buffer_main, "final_flushing")
       ELSE /\ consumer_pc' = "done"
            /\ UNCHANGED <<buffer_gem, buffer_main, gem_to_commit, main_to_commit,
                           db_gem, db_main>>
    /\ UNCHANGED <<SHUTDOWN, queue, db_failed, scraper_pc, page_no, total_pages, rows_put,
                   predict_vars>>

NextPipeline ==
    \/ HandleSignal
    \/ ScraperBeginCycle
    \/ ScraperPage
    \/ ScraperError
    \/ ScraperWake
    \/ ScraperExit
    \/ ConsumerLoop
    \/ ConsumerGet
    \/ FlushDone
    \/ ConsumerFinal

SpecPipeline == InitPipeline /\ [][NextPipeline]_vars

\* main returns: asyncio.gather(scraper_task, consumer_task) is done
Terminated == scraper_pc = "done" /\ consumer_pc = "done"

-----------------------------------------------------------------------------
(* run.py: scrape_single_page_to_rows, the global relevancy of one card    *)

\* what the call global_predict(items, top_k=5) ended with
PredictOutcome ==
    IF pc = "returned" THEN [kind |-> "return", value |-> response] ELSE [kind |-> "raise"]

\* query_result: results[0] of the dict predict returned, {} without results
QueryResult(g) ==
    IF g.value.results # <<>> THEN g.value.results[1] ELSE <<>>

\* global_score: float(query_result.get("relevancy_score", 0.0) or 0.0), and
\* 0.0 from the except block
GlobalScore(g) ==
    IF g.kind = "raise" THEN 0 ELSE Get(QueryResult(g), "relevancy_score", 0)

\* global_relevant taken from the result's "relevant" verdict
GlobalRelevant_by_verdict(g) ==
    IF g.kind = "return" /\ Get(QueryResult(g), "relevant", FALSE) THEN 1 ELSE 0

\* global_relevant: 1 if global_score > 0 else 0, and 0 from the except block
GlobalRelevant(g) ==
    IF GlobalScore(g) > 0 THEN 1 ELSE 0

\* the card is scored with top_k=5
InitScrape ==
    /\ Init
    /\ top_k = 5

\* the try block around global_predict, and its except block
ScrapeCard ==
    /\ pc \in {"returned", "raised"}
    /\ \E g \in {PredictOutcome} :
          /\ global_score' = GlobalScore(g)
          /\ global_relevant' = GlobalRelevant(g)
    /\ pc' = "stored"
    /\ UNCHANGED <<query, top_k, INDEX, HAS_ANALYSER_MODEL, HAS_ENDO_MODEL,
                   individual_queries, all_results, response, top_matches, relevant,
                   scorer_calls, helper_vars,
                   SHUTDOWN, queue, buffer_gem, buffer_main, gem_to_commit, main_to_commit,
                   db_gem, db_main, db_failed, scraper_pc, consumer_pc, page_no, total_pages,
                   rows_put>>

NextScrape ==
    \/ Next
    \/ ScrapeCard

SpecScrape == InitScrape /\ [][NextScrape]_vars

-----------------------------------------------------------------------------
(* Statements about split_multi_query, checked under SpecSplit             *)

\* what the clean-up loop collected for the current input, before the fallback
QueriesCollected == CleanParts(SplitParts(StripPrefixes(normalize_text(query))))

\* the pieces of s between its commas, semicolons and pipes, each trimmed
FragCuts(s) == {0, Len(s) + 1} \cup {i \in 1..Len(s) : s[i] \in {",", ";", "|"}}
FragCut(s, k) == CHOOSE c \in FragCuts(s) : Cardinality({x \in FragCuts(s) : x < c}) = k - 1
TrimmedFragments(s) ==
    [k \in 1..(Cardinality(FragCuts(s)) - 1) |->
        Strip(SubSeq(s, FragCut(s, k) + 1, FragCut(s, k + 1) - 1))]

HasBoilerplatePrefix(s) ==
    \E k \in 1..Len(prefixes_to_remove) : \E n \in 1..Len(s) :
        LET w1 == prefixes_to_remove[k][1]
            w2 == prefixes_to_remove[k][2]
        IN  /\ OccursAt(Lower(s), 1, w1)
            /\ \A i \in (Len(w1) + 1)..(Len(w1) + n) : i <= Len(s) /\ s[i] \in WS
            /\ OccursAt(Lower(s), Len(w1) + n + 1, w2)

HasEdgePunctuation(f) == f # <<>> /\ (f[1] \in EdgeClass \/ f[Len(f)] \in EdgeClass)

HasListMarker(f) == \E i \in 1..(Len(f) - 1) : f[i] \in Digits /\ f[i + 1] \in {".", ")"}

HasLocationSuffix(f) ==
    \E d \in 1..Len(f) : \E w \in {W_hospital, W_equipment, W_equipment \o <<"s">>} :
        /\ f[d] \in DashClass
        /\ \A i \in (d + 1)..Len(f) : IsWordOrSpace(f[i])
        /\ Len(f) - Len(w) >= d + 1
        /\ OccursAt(Lower(f), Len(f) - Len(w) + 1, w)

\* s is made of plain fragments: at least 5 characters each once trimmed, no
\* boilerplate prefix, edge punctuation, numbered-list marker or location suffix
PlainFragments(s) ==
    /\ ~HasBoilerplatePrefix(s)
    /\ \A k \in 1..Len(TrimmedFragments(s)) :
          LET f == TrimmedFragments(s)[k]
          IN  /\ Len(f) >= 5
              /\ ~HasEdgePunctuation(f)
              /\ ~HasListMarker(f)
              /\ ~HasLocationSuffix(f)

S_helmet == <<"h", "e", "l", "m", "e", "t">>
S_helmets == <<"h", "e", "l", "m", "e", "t", "s">>
S_gloves == <<"g", "l", "o", "v", "e", "s">>
S_boots == <<"b", "o", "o", "t", "s">>

\* C3: split never returns an empty list, whatever the input string.
Thm_C3_SplitNeverEmpty ==
    pc = "returned" => Len(individual_queries) >= 1

\* C3 witness: an input whose every fragment is dropped, answered with one element
Wit_C3_AllDropped ==
    pc = "returned" /\ QueriesCollected = <<>> /\ Len(individual_queries) = 1

\* C4: when cleaning leaves zero fragments, split returns exactly the
\* normalized, trimmed original input (still carrying its boilerplate prefix).
Cex_C4_FallbackIsOriginalInput ==
    (pc = "returned" /\ QueriesCollected = <<>>)
        => individual_queries = << normalize_text(query) >>

\* C5: two fragments of at least 5 characters each, separated only by a
\* newline, come back as two sub-queries.
Cex_C5_NewlineSplits ==
    (/\ pc = "returned"
     /\ \E i \in 1..Len(query) :
           /\ query[i] = "\n"
           /\ i - 1 >= 5 /\ Len(query) - i >= 5
           /\ \A j \in (1..Len(query)) \ {i} : query[j] \in LowerLetters)
        => Len(individual_queries) = 2

BoilerplatePieces ==
    { <<"s", "u", "p", "p", "l", "y", " ", "o", "f", " ", "-", " ">>,
      <<"R", "e", "q", "u", "i", "r", "e", "m", "e", "n", "t", " ", "o", "f", ":">> }

LocationPieces ==
    { <<" ", "-", " ", "c", "i", "t", "y", " ", "h", "o", "s", "p", "i", "t", "a", "l">>,
      <<" ", "-", " ", "g", "m", "c", " ", "E", "q", "u", "i", "p", "m", "e", "n", "t", "s">> }

\* C7: a leading boilerplate prefix of the input and a trailing location
\* suffix of the last fragment are removed: an input <prefix><body><suffix>
\* with a body of plain fragments yields the fragments of the body, and
\* split("supply of - helmets, gloves - city hospital") == ["helmets", "gloves"].
Thm_C7_PrefixAndSuffixStripped ==
    pc = "returned" =>
        /\ query = Q_supply7 => individual_queries = <<S_helmets, S_gloves>>
        /\ \A P \in BoilerplatePieces : \A S \in LocationPieces :
              LET nq   == normalize_text(query)
                  body == SubSeq(nq, Len(P) + 1, Len(nq) - Len(S))
              IN  (/\ Len(nq) >= Len(P) + Len(S)
                   /\ OccursAt(nq, 1, P)
                   /\ OccursAt(nq, Len(nq) - Len(S) + 1, S)
                   /\ PlainFragments(body))
                      => individual_queries = TrimmedFragments(body)

\* C7 witness: the example input, answered without prefix and suffix
Wit_C7_SupplyOfExample ==
    /\ pc = "returned"
    /\ query = Q_supply7
    /\ individual_queries = <<S_helmets, S_gloves>>

\* C26: every sub-query returned by split is a non-empty string whenever the
\* input contains at least one non-whitespace character (a character that is
\* neither white space nor a zero-width or directional mark), also for inputs
\* that consist only of a boilerplate prefix.
Cex_C26_SubQueriesNonEmpty ==
    (pc = "returned" /\ \E i \in 1..Len(query) : query[i] \notin WS \cup FormatChars)
        => \A n \in 1..Len(individual_queries) : individual_queries[n] # <<>>

\* the place in prefixes_to_remove of the pattern that matches the piece P
BoilerplateRule(P) ==
    CHOOSE k \in 1..Len(prefixes_to_remove) : SubPrefix(P, prefixes_to_remove[k]) = <<>>

\* inputs that begin with two boilerplate prefixes in a row, then one product
TwoPrefixInputs ==
    { [first |-> P1, second |-> P2, body |-> B] :
        P1 \in BoilerplatePieces, P2 \in BoilerplatePieces, B \in {S_helmets, S_gloves} }

\* C22 as stated: when the input begins with two boilerplate prefixes in a
\* row, only the first one is removed and the second stays in the sub-query.
Cex_C22_OnlyFirstPrefixRemoved ==
    pc = "returned" =>
        \A t \in TwoPrefixInputs :
            query = t.first \o t.second \o t.body
                => individual_queries = << Strip(t.second \o t.body) >>

\* C22 as amended: the five prefix patterns are applied once each, in the
\* order of the list; of two boilerplate prefixes in a row both are removed
\* when the second one's pattern comes later in the list than the first
\* one's, and only the first is removed (the second stays in the sub-query)
\* when the second one's pattern is the same or comes earlier.
Thm_C22_PrefixesInListOrder ==
    pc = "returned" =>
        \A t \in TwoPrefixInputs :
            query = t.first \o t.second \o t.body
                => individual_queries =
                      IF BoilerplateRule(t.first) < BoilerplateRule(t.second)
                      THEN << t.body >>
                      ELSE << Strip(t.second \o t.body) >>

\* C22 witnesses: "supply of - Requirement of:gloves" lost both prefixes, and
\* "Requirement of:supply of - gloves" kept the second one
Wit_C22_BothPrefixesRemoved ==
    /\ pc = "returned"
    /\ query = W_supply \o <<" ", "o", "f", " ", "-", " ", "R", "e", "q", "u", "i", "r", "e", "m", "e", "n", "t",
                              " ", "o", "f", ":">> \o S_gloves
    /\ individual_queries = << S_gloves >>

-----------------------------------------------------------------------------
(* Statements about predict, checked under Spec                            *)

\* the results of the global fallback among those produced so far
GenericResults ==
    IF pc \in {"loop", "returned", "raised"}
    THEN {i \in 1..Len(all_results) : all_results[i].model_used = "global_index"}
    ELSE {}

Thm_C2_ResponseShape ==
    pc = "returned" =>
        /\ response.query_count = Len(response.individual_queries)
        /\ response.query_count = Len(response.results)
        /\ response.query_count = response.summary.total_queries
        /\ response.individual_queries = split_multi_query(query)
        /\ \A i \in 1..Len(response.results) :
              /\ response.results[i].query_number = i
              /\ response.results[i].query = normalize_text(response.individual_queries[i])
        /\ response.is_multi_query = (response.query_count > 1)

\* C2 witness: a three-fragment input has returned with three numbered results
Wit_C2_ThreeResults ==
    /\ pc = "returned"
    /\ query = Q_helmet3
    /\ response.query_count = 3
    /\ response.results[3].query_number = 3

\* C9: in every ranked result of the generic path the candidate with the
\* higher raw_score comes first, and candidates with equal raw_score come in
\* ascending order of their index field.
Cex_C9_TiesByAscendingIndex ==
    \A r \in GenericResults :
        \A a, b \in 1..Len(all_results[r].top_matches) :
            a < b =>
                LET ma == all_results[r].top_matches[a]
                    mb == all_results[r].top_matches[b]
                IN  /\ ma.raw_score >= mb.raw_score
                    /\ ma.raw_score = mb.raw_score => ma.index < mb.index

\* C10: for every top_k >= 0, every sub-query result that predict returns,
\* from the generic path or from a specialized scorer, has at most top_k
\* top_matches.
Cex_C10_AtMostTopK ==
    (pc = "returned" /\ top_k >= 0) =>
        \A i \in 1..Len(response.results) : Len(response.results[i].top_matches) <= top_k

\* C11: in every response of predict, relevant_matches is the number of
\* results with relevant true, irrelevant_matches is total_queries minus
\* relevant_matches, success_rate is relevant_matches / total_queries and
\* average_relevancy is the sum of the results' relevancy_score over their
\* number; for an empty list of results the summary holds 0 for both ratios.
Thm_C11_SummaryStatistics ==
    pc = "returned" =>
        LET rs  == response.results
            n   == Len(rs)
            sm  == response.summary
            rel == Cardinality({i \in 1..n : rs[i].relevant = TRUE})
            total[k \in 0..n] == IF k = 0 THEN 0 ELSE total[k - 1] + rs[k].relevancy_score
            empty == BuildResponse(query, <<>>, <<>>).summary
        IN  /\ sm.relevant_matches = rel
            /\ sm.irrelevant_matches = sm.total_queries - sm.relevant_matches
            /\ n > 0
            /\ sm.success_rate = [num |-> rel, den |-> sm.total_queries]
            /\ sm.average_relevancy = [num |-> total[n], den |-> n]
            /\ empty.success_rate.num = 0
            /\ empty.average_relevancy.num = 0

\* C11 witness: predict has returned with a relevant and an irrelevant result
Wit_C11_MixedVerdicts ==
    /\ pc = "returned"
    /\ response.summary.relevant_matches = 1
    /\ response.summary.irrelevant_matches = 1
    /\ response.summary.average_relevancy.num > 0

\* the scorer raised, or returned something that is no dict or holds a
\* best_match or a top_matches entry that is no dict
ScorerFailed(o) ==
    \/ o.kind = "raise"
    \/ o.value = NotADict
    \/ /\ "best_match" \in DOMAIN o.value
       /\ o.value.best_match = NotADict
    \/ /\ "top_matches" \in DOMAIN o.value
       /\ \E i \in 1..Len(o.value.top_matches) : o.value.top_matches[i] = NotADict

\* C12: when the scorer chosen for a sub-query raises or returns a result that
\* cannot be sanitized, the sub-query's result comes from the generic path
\* (model_used is global_index), and when predict returns every sub-query of
\* the call has its result.
Thm_C12_ScorerFailureFallsThrough ==
    /\ \A k \in 1..Len(scorer_calls) :
          LET c == scorer_calls[k]
          IN  (ScorerFailed(c.outcome) /\ c.query_number <= Len(all_results)) =>
                  /\ all_results[c.query_number].model_used = "global_index"
                  /\ all_results[c.query_number].query =
                        normalize_text(individual_queries[c.query_number])
    /\ pc = "returned" =>
          /\ Len(response.results) = Len(individual_queries)
          /\ \A i \in 1..Len(response.results) :
                response.results[i].model_used \in
                    {"global_index", "analyser_relevancy", "endo_relevancy"}

\* C12 witness: the analyser scorer failed for the first sub-query, which the
\* generic path answered, and the second sub-query got the endo scorer's result
Wit_C12_AnalyserFailedEndoAnswered ==
    /\ pc = "returned"
    /\ Len(scorer_calls) = 2
    /\ scorer_calls[1].scorer = "analyser"
    /\ ScorerFailed(scorer_calls[1].outcome)
    /\ response.results[1].model_used = "global_index"
    /\ response.results[2].model_used = "endo_relevancy"

\* C13: when the encoder fails for one sub-query of a multi-query request,
\* predict still returns (the failure stays with that sub-query's result and
\* the siblings are scored): the call of predict is never left by the
\* encoder's exception.
Cex_C13_EncoderFailureIsolated ==
    pc = "raised" => Len(individual_queries) <= 1

Cex_C16_RelevancyInUnitInterval ==
    pc \in {"loop", "returned", "raised"} =>
        \A i \in 1..Len(all_results) :
            /\ all_results[i].best_match.relevancy \in 0..100
            /\ \A j \in 1..Len(all_results[i].top_matches) :
                  all_results[i].top_matches[j].relevancy \in 0..100

\* the scorer the statement names for sub-query idx: the one of its detected
\* category, compared without regard to case, if that scorer is registered
RegisteredFor(lowered_category) ==
    IF lowered_category = Lower(<<"A", "n", "a", "l", "y", "s", "e", "r">>) /\ HAS_ANALYSER_MODEL
    THEN "analyser"
    ELSE IF lowered_category = Lower(<<"E", "n", "d", "o">>) /\ HAS_ENDO_MODEL
         THEN "endo"
         ELSE "none"

\* the scorer registered for the category of sub-query idx, "none" without one
RegisteredScorer(idx) ==
    RegisteredFor(Lower(detect_category_from_query(normalize_text(individual_queries[idx]), INDEX)))

\* the calls of a scorer made for sub-query idx
CallsFor(idx) == {k \in 1..Len(scorer_calls) : scorer_calls[k].query_number = idx}

\* C24: for a sub-query a specialized scorer is invoked exactly when the
\* detected category equals 'Analyser' or 'Endo' (case-insensitive) and the
\* scorer for that category is registered; model_used is
\* 'analyser_relevancy' or 'endo_relevancy' only when that scorer returned a
\* result that was sanitized successfully, and 'global_index' in every other
\* case.
Thm_C24_RoutingAndModelUsed ==
    pc \in {"returned", "raised"} =>
      \A registered \in {{<<idx, RegisteredScorer(idx)>> :
                              idx \in 1..Min(Len(all_results) + 1, Len(individual_queries))}} :
        /\ \A k \in 1..Len(scorer_calls) :
              <<scorer_calls[k].query_number, scorer_calls[k].scorer>> \in registered
        /\ \A idx \in 1..Len(all_results) :
              \A calls \in {CallsFor(idx)} :
                 /\ Cardinality(calls) = IF <<idx, "none">> \in registered THEN 0 ELSE 1
                 /\ all_results[idx].model_used = "analyser_relevancy" =>
                        \E k \in calls : /\ scorer_calls[k].scorer = "analyser"
                                          /\ ~ScorerFailed(scorer_calls[k].outcome)
                 /\ all_results[idx].model_used = "endo_relevancy" =>
                        \E k \in calls : /\ scorer_calls[k].scorer = "endo"
                                          /\ ~ScorerFailed(scorer_calls[k].outcome)
                 /\ (\A k \in calls : ScorerFailed(scorer_calls[k].outcome)) =>
                        all_results[idx].model_used = "global_index"

\* C24 witness: "cbc analyser, suture kit" with only the analyser scorer
\* registered: the analyser scorer answered the first sub-query, and no
\* scorer was called for the second one, whose category is Endo
Wit_C24_EndoNotRegistered ==
    /\ pc = "returned"
    /\ query = Q_cbc_suture
    /\ HAS_ANALYSER_MODEL /\ ~HAS_ENDO_MODEL
    /\ Len(scorer_calls) = 1
    /\ response.results[1].model_used = "analyser_relevancy"
    /\ response.results[2].detected_category = <<"E", "n", "d", "o">>
    /\ response.results[2].model_used = "global_index"

\* C25: on the generic path raw_score of an item is
\* 1.0*emb_score + 0.35*token_score + 0.5*title_overlap, plus 0.25 exactly
\* when a category was detected and its lowercase form is a substring of the
\* item's lowercased category or type, plus 0.5 exactly when the item's
\* product_code is non-empty and occurs (compared in lower case) as a whole
\* word in the lowercased query; each bonus is added at most once per item.
\* Scores are in SCALE-ths, and both sides are multiplied by 100.
Thm_C25_RawScoreFormula ==
    \A idx \in GenericResults :
        \A r \in {all_results[idx]} :
            \A n \in 1..Len(r.top_matches) :
                \A m \in {r.top_matches[n]} :
                    100 * m.raw_score =
                        100 * m.emb_score + 35 * m.token_score + 50 * m.title_overlap
                        + (IF /\ Truthy(r.detected_category)
                              /\ \/ Contains(Lower(m.category), Lower(r.detected_category))
                                 \/ Contains(Lower(m.type), Lower(r.detected_category))
                           THEN 25 * SCALE ELSE 0)
                        + (IF /\ m.product_code # <<>>
                              /\ WholeWordIn(Lower(m.product_code), Lower(r.query))
                           THEN 50 * SCALE ELSE 0)

\* C25 witness: "gloves gl100" over the helmet and the gloves item, both of
\* category ppe: the gloves item GL100 got both bonuses, the helmet item got
\* the category bonus only
Wit_C25_BothBonuses ==
    /\ pc = "returned"
    /\ query = Q_gloves_sku
    /\ Len(response.results[1].top_matches) = 2
    /\ \A m \in {response.results[1].top_matches[1]} :
          /\ m.product_code = <<"G", "L", "1", "0", "0">>
          /\ 100 * m.raw_score =
                100 * m.emb_score + 35 * m.token_score + 50 * m.title_overlap + 75 * SCALE
    /\ \A m \in {response.results[1].top_matches[2]} :
          100 * m.raw_score =
                100 * m.emb_score + 35 * m.token_score + 50 * m.title_overlap + 25 * SCALE

-----------------------------------------------------------------------------
(* Statements about the scraper pipeline, checked under SpecPipeline       *)

\* the rows of a list of rows
RowsOf(rows) == {rows[n] : n \in 1..Len(rows)}

\* how often row r is in a list of rows
TimesIn(r, rows) == Cardinality({n \in 1..Len(rows) : rows[n] = r})

\* C28: graceful shutdown loses no row: when the pipeline has terminated,
\* every row the scraper put on the queue has been taken by the consumer and
\* submitted to the database in a flush.
Cex_C28_NoRowLost ==
    Terminated =>
        /\ queue = <<>>
        /\ \A r \in 1..rows_put : r \in RowsOf(db_gem) /\ r \in RowsOf(db_main)

\* C29: flush_buffers leaves both buffers empty whether or not the database
\* writes succeed; every row taken from the queue is submitted to each table
\* at most once, and the rows of a batch whose write failed are in no buffer
\* afterwards, so that no later flush submits them again.
Thm_C29_FlushDropsFailedRows ==
    [][(consumer_pc \in {"flushing", "final_flushing"} /\ consumer_pc' # consumer_pc) =>
            /\ buffer_gem' = <<>> /\ buffer_main' = <<>>
            /\ \A r \in 1..rows_put :
                  TimesIn(r, db_gem') <= 1 /\ TimesIn(r, db_main') <= 1
            /\ \A f \in db_failed' : \A r \in RowsOf(f.rows) :
                  r \notin RowsOf(buffer_gem') \cup RowsOf(buffer_main')]_vars

\* C29 witness: the pipeline ended after a flush whose gem_tenders write
\* failed and a later flush of other rows; every row was submitted once
Wit_C29_LaterFlushAfterFailure ==
    /\ Terminated
    /\ \E f \in db_failed :
          /\ f.table = "gem_tenders"
          /\ f.rows # <<>>
          /\ RowsOf(db_gem) \ RowsOf(f.rows) # {}
          /\ \E r \in RowsOf(db_gem) : \A x \in RowsOf(f.rows) : x < r
    /\ \A r \in RowsOf(db_gem) : TimesIn(r, db_gem) = 1

-----------------------------------------------------------------------------
(* Statements about scrape_single_page_to_rows, checked under SpecScrape   *)

\* predict returned its response: the loop ran over every sub-query (the
\* encoder's exception leaves predict inside the loop)
PredictReturned == Len(all_results) = Len(individual_queries)

\* C30: the relevency_result flag stored for a tender is 1 exactly when the
\* relevancy_score of the first sub-query result returned by predict is
\* greater than 0, and 0 when predict fails or returns no results; it does
\* not depend on that result's relevant verdict nor on the results of later
\* sub-queries.
Thm_C30_FlagFromFirstScore ==
    pc = "stored" =>
        /\ global_relevant \in {0, 1}
        /\ global_relevant = 1 <=>
              /\ PredictReturned
              /\ Len(response.results) >= 1
              /\ response.results[1].relevancy_score > 0
        /\ (~PredictReturned \/ response.results = <<>>) => global_relevant = 0

\* C30 witness: the first result has a score above 0 and the verdict "not
\* relevant", a later result has the score 0, and the flag is 1
Wit_C30_FlagOneVerdictFalse ==
    /\ pc = "stored"
    /\ PredictReturned
    /\ Len(response.results) >= 2
    /\ response.results[1].relevancy_score > 0
    /\ response.results[1].relevant = FALSE
    /\ response.results[2].relevancy_score = 0
    /\ global_relevant = 1

====
